---- MODULE Spec2Model ----
(***************************************************************************)
(* Funding ledger of the crowdfunding backend: the investment controller   *)
(* (createInvestment, updateInvestment, cancelInvestment), the project     *)
(* controller's updateProject and the payment service they call.           *)
(* Every handler is one atomic action; the server answers a request        *)
(* (Respond) before it takes the next one.                                 *)
(* Further down: the same handlers as interleaved processes of concurrent  *)
(* requests, the middleware chain of the routes (protect, authorize, the   *)
(* handlers' ownership checks), and the list route (advancedResults) with  *)
(* the client's ProjectContext; then the operations of the ProjectContext, *)
(* the favorites handlers, the routers as Express walks them, and the      *)
(* client's api with its interceptors.                                     *)
(***************************************************************************)
EXTENDS Integers, Sequences, FiniteSets, TLC

VARIABLES
    users,         \* the User collection: id -> document
    projects,      \* the Project collection: id -> document
    investments,   \* the Investment collection, in insertion order (index = _id)
    edits,         \* number of findByIdAndUpdate writes made so far
    last,          \* the request being answered and its response
    procs,         \* the handlers in progress of concurrent requests: slot -> locals
    req,           \* the HTTP request the middleware chain is given
    collection,    \* the documents of the model a list route reads
    client         \* the state of the client: its ProjectContext and localStorage

vars == <<users, projects, investments, edits, last, procs, req, collection, client>>

\* what the handlers of the ledger routes do not touch
elsewhere == <<procs, req, collection, client>>

(***************************************************************************)
(* Bounds of the model.                                                    *)
(***************************************************************************)
MaxInvestments == 2
MaxEdits == 1
\* requests the server handles at the same time
MaxRequests == 2
\* documents in the collection a list route reads
MaxRecords == 4
\* the count of the sends and refreshes of one client request stops here
MaxAttempts == 3

(***************************************************************************)
(* Users (req.user, as loaded by protect) and the values requests carry.   *)
(***************************************************************************)
Users == {"alice", "bob", "mgr", "root"}

SeedRole(u) ==
    CASE u = "root" -> "admin"
      [] u = "mgr"  -> "manager"
      [] OTHER      -> "investor"

role(u) == users[u].role

\* req.user.investorProfile.accreditedStatus
accreditedStatus(u) == users[u].accreditedStatus

ProjectIds == {"p1"}
\* p0: a well-formed id no project has
RequestProjectIds == ProjectIds \cup {"p0"}

Amounts == {50, 100, 10000}
Times == {1, 2}

PAYMENT_METHODS == {"bank_transfer", "credit_card", "wire", "crypto", "other"}
INVESTMENT_STATUSES == {"pending", "completed", "cancelled", "refunded"}

\* what stripe.paymentIntents.create does: it returns an intent that
\* succeeded or one that has not yet, or it throws (card declined, network)
StripeOutcomes == {"succeeded", "requires_action", "declined"}
\* what stripe.refunds.create does
RefundOutcomes == {"succeeded", "failed"}

NoBody == "absent"

(***************************************************************************)
(* The state after the database is seeded: an active project owned by the  *)
(* manager, open to every investor or to accredited investors only, and    *)
(* the investor alice, accredited or not.                                  *)
(***************************************************************************)
SeedProject(accreditedOnly) ==
    [status          |-> "active",
     fundingRaised   |-> 0,
     fundingGoal     |-> 10000,
     minInvestment   |-> 100,
     fundingDeadline |-> 1,
     accreditedOnly  |-> accreditedOnly,
     owner           |-> "mgr",
     images          |-> <<>>,
     updates         |-> <<>>,
     metrics         |-> [favorites |-> 0]]

SeedUser(u, accredited) ==
    [role |-> SeedRole(u),
     accreditedStatus |-> IF u = "alice" /\ accredited THEN "accredited" ELSE "pending",
     favoriteProjects |-> <<>>,
     version |-> 0]

NoRequest == [op |-> "none", code |-> 0, err |-> "", calls |-> <<>>,
              user |-> "", id |-> "", amount |-> 0, method |-> "", body |-> "",
              now |-> 0, gateway |-> ""]

\* the investor and project of a request body that names neither
EmptyBody == [investor |-> NoBody, project |-> NoBody]

\* the null of a state that holds a document or nothing
null == [id |-> "null"]

\* a slot no request occupies.  A handler in progress keeps the request
\* (op, user, project, id, amount), what the gateway does for it, its
\* position (pc), what processPayment returned (paymentId, the status to
\* create), the fields of the project document it holds (fundingRaised,
\* fundingGoal, status, and the paths it has modified), the number of refunds it has
\* asked the gateway for, and the status code it ended with; an operation
\* of the client's ProjectContext in progress keeps the currentProject its
\* closure captured; a favorites handler keeps the counter of the project
\* document and the favoriteProjects and version (__v) of the user document
\* it has read; createInvestment keeps the investor and project of the body
\* as the request sent it and as req.body holds them; a request of the
\* client's api keeps config._retry, its Authorization header and the number
\* of times it was sent and of refreshes made for it
NoProc == [op |-> "none", pc |-> "idle", code |-> 0, user |-> "", project |-> "",
           id |-> 0, amount |-> 0, method |-> "", gateway |-> "", paymentId |-> "",
           created |-> "", fundingRaised |-> 0, fundingGoal |-> 0, status |-> "",
           dirty |-> {}, refunds |-> 0, captured |-> null, favorites |-> 0,
           favoriteProjects |-> <<>>, version |-> 0, sent |-> EmptyBody,
           body |-> EmptyBody, retry |-> FALSE, sends |-> 0, refreshes |-> 0,
           authorization |-> ""]

Slots == 1..MaxRequests

\* the Authorization header: no bearer token at all, or a token with its
\* signature (made with JWT_SECRET or not), its subject and its expiry
NoToken == [bearer |-> FALSE, signed |-> FALSE, sub |-> "", exp |-> 0]

\* no request in the middleware chain; query is req.query, a parameter the
\* URL does not have being <<>>
NoHttp == [route |-> "none", token |-> NoToken, now |-> 0,
           query |-> [page |-> <<>>, limit |-> <<>>, sort |-> <<>>, select |-> <<>>,
                      fundingGoal |-> [op |-> "", operand |-> <<>>]]]

\* localStorage without the keys of utils/token.js ("" for a key not set)
NoTokens == [token |-> "", refreshToken |-> "", user |-> ""]

\* useState(...) of the ProjectProvider, the params of the fetchProjects
\* call that is waiting for its response (0: a parameter not given), and the
\* browser's localStorage
InitialClient ==
    [projects |-> <<>>, currentProject |-> null, loading |-> FALSE, error |-> "null",
     pagination |-> [page |-> 1, limit |-> 10, total |-> 0, totalPages |-> 0],
     params |-> [page |-> 0, limit |-> 0],
     storage |-> NoTokens]

\* the ledger right after seeding
SeedLedger ==
    /\ \E accredited \in BOOLEAN : users = [u \in Users |-> SeedUser(u, accredited)]
    /\ \E accreditedOnly \in BOOLEAN :
          projects = [p \in ProjectIds |-> SeedProject(accreditedOnly)]
    /\ investments = <<>>
    /\ edits = 0
    /\ last = NoRequest

\* nothing in progress outside the ledger
Quiet ==
    /\ procs = [r \in Slots |-> NoProc]
    /\ req = NoHttp
    /\ collection = <<>>
    /\ client = InitialClient

Init == Quiet /\ SeedLedger

(***************************************************************************)
(* services/paymentService.js                                              *)
(***************************************************************************)
\* fee = amount * 0.02
fee(amount) == (amount * 2) \div 100

Threw == [threw |-> TRUE, paymentId |-> "", fee |-> 0, status |-> ""]

\* the default case returns a pending result instead of throwing
processPayment_noDefault(amount, paymentMethod, stripe) ==
    CASE paymentMethod = "credit_card" ->
            IF stripe = "declined"
            THEN Threw
            ELSE [threw |-> FALSE, paymentId |-> "pi_", fee |-> fee(amount),
                  status |-> IF stripe = "succeeded" THEN "succeeded" ELSE "pending"]
      [] OTHER ->
            [threw |-> FALSE, paymentId |-> "bank_", fee |-> fee(amount), status |-> "pending"]

\* processPayment: `stripe` is what the Stripe call does when it is made
processPayment(amount, paymentMethod, stripe) ==
    CASE paymentMethod = "credit_card" ->
            IF stripe = "declined"
            THEN Threw
            ELSE [threw |-> FALSE, paymentId |-> "pi_", fee |-> fee(amount),
                  status |-> IF stripe = "succeeded" THEN "succeeded" ELSE "pending"]
      [] paymentMethod = "bank_transfer" ->
            [threw |-> FALSE, paymentId |-> "bank_", fee |-> fee(amount), status |-> "pending"]
      [] paymentMethod = "wire" ->
            [threw |-> FALSE, paymentId |-> "wire_", fee |-> fee(amount), status |-> "pending"]
      [] paymentMethod = "crypto" ->
            [threw |-> FALSE, paymentId |-> "crypto_", fee |-> fee(amount), status |-> "pending"]
      [] OTHER -> Threw

\* a failed Stripe refund is swallowed
processRefund_swallowed(paymentId, refund) == TRUE

\* processRefund: TRUE when it returns, FALSE when it throws
processRefund(paymentId, refund) ==
    IF paymentId = "pi_"
    THEN refund = "succeeded"
    ELSE paymentId \in {"bank_", "wire_", "crypto_"}

(***************************************************************************)
(* controllers/investmentController.js: createInvestment                   *)
(***************************************************************************)
notAccepting(project) == project.status # "active"

\* a request at the deadline itself is too late
deadlinePassed_inclusive(now, project) == now >= project.fundingDeadline

deadlinePassed(now, project) == now > project.fundingDeadline

\* the minimum is never enforced
belowMinimum_unchecked(amount, project) == FALSE

belowMinimum(amount, project) == amount < project.minInvestment

notAccredited(u, project) ==
    project.accreditedOnly /\ accreditedStatus(u) # "accredited"

\* the status Investment.create(req.body) stores: req.body.status is set to
\* completed on a succeeded payment and is otherwise what the request sent;
\* the schema's default applies when the body has none
DefaultInvestmentStatus == "pending"

createdStatus(paymentResult, bodyStatus) ==
    IF paymentResult.status = "succeeded" THEN "completed"
    ELSE IF bodyStatus # NoBody THEN bodyStatus
    ELSE DefaultInvestmentStatus

RECURSIVE sumCompleted(_, _)
sumCompleted(invs, pid) ==
    IF invs = <<>> THEN 0
    ELSE (IF Head(invs).project = pid /\ Head(invs).status = "completed"
          THEN Head(invs).amount ELSE 0) + sumCompleted(Tail(invs), pid)

\* Investment.aggregate([$match project, status completed; $group $sum amount]):
\* one group when a document matches, none otherwise
totalFunded(invs, pid) ==
    IF \E i \in 1..Len(invs) : invs[i].project = pid /\ invs[i].status = "completed"
    THEN <<[totalFunding |-> sumCompleted(invs, pid)]>>
    ELSE <<>>

fundingRaisedAfter(project, total) ==
    IF Len(total) > 0 THEN total[1].totalFunding ELSE project.fundingRaised

\* the goal must be exceeded
goalReached_strict(raised, project) == raised > project.fundingGoal

goalReached(raised, project) == raised >= project.fundingGoal

\* one entry of the record a handler leaves of the service calls and the
\* writes it made, in order; amount is the amount passed to the gateway
Call(fn, amount) == [fn |-> fn, amount |-> amount]

\* the request (user, id, amount, method, the body's other field), the
\* environment it met (now, what the gateway did when it was called) and
\* the response (code, err, calls)
Response(op, code, err, calls, u, id, amount, method, body, now, gateway) ==
    [op |-> op, code |-> code, err |-> err, calls |-> calls,
     user |-> u, id |-> id, amount |-> amount, method |-> method, body |-> body,
     now |-> now, gateway |-> gateway]

createInvestment(u, pid, amount, paymentMethod, bodyStatus, now, stripe) ==
    LET Reply(code, err, calls, gw) ==
            Response("createInvestment", code, err, calls, u, pid, amount,
                     paymentMethod, bodyStatus, now, gw)
        Reject(code, err) ==
            /\ last' = Reply(code, err, <<>>, "unused")
            /\ UNCHANGED <<users, projects, investments, edits>>
    IN
    IF pid \notin DOMAIN projects THEN Reject(404, "Project not found")
    ELSE LET project == projects[pid] IN
    IF notAccepting(project) THEN Reject(400, "Project is not currently accepting investments")
    ELSE IF deadlinePassed(now, project) THEN Reject(400, "Funding deadline has passed")
    ELSE IF belowMinimum(amount, project) THEN Reject(400, "Minimum investment amount")
    ELSE IF notAccredited(u, project) THEN Reject(403, "accredited investors only")
    ELSE LET paymentResult == processPayment(amount, paymentMethod, stripe) IN
    IF paymentResult.threw
    THEN /\ last' = Reply(400, "Payment processing failed", <<Call("processPayment", amount)>>, stripe)
         /\ UNCHANGED <<users, projects, investments, edits>>
    ELSE
        LET investment ==
                [investor |-> u, project |-> pid, amount |-> amount,
                 paymentId |-> paymentResult.paymentId,
                 transactionFee |-> paymentResult.fee,
                 status |-> createdStatus(paymentResult, bodyStatus)]
            created == Append(investments, investment)
            raised == fundingRaisedAfter(project, totalFunded(created, pid))
        IN
        /\ Len(investments) < MaxInvestments
        /\ investments' = created
        /\ projects' = [projects EXCEPT
                ![pid].fundingRaised = raised,
                ![pid].status = IF goalReached(raised, project) THEN "funded" ELSE @]
        /\ last' = Reply(201, "", <<Call("processPayment", amount)>>, stripe)
        /\ UNCHANGED <<users, edits>>

(***************************************************************************)
(* controllers/investmentController.js: cancelInvestment                   *)
(***************************************************************************)
\* a manager passes for the owner
notOwnerNorAdmin_managers(u, owner) == owner # u /\ role(u) \notin {"admin", "manager"}

notOwnerNorAdmin(u, owner) == owner # u /\ role(u) # "admin"

\* completed investments can be cancelled too
notCancellable_completedToo(investment) == investment.status \notin {"pending", "completed"}

notCancellable(investment) == investment.status # "pending"

needsRefund(investment) == investment.paymentId # ""

cancelInvestment(u, id, refund) ==
    LET Reply(code, err, calls, gw) ==
            Response("cancelInvestment", code, err, calls, u, id, 0, "", "", 0, gw)
        Reject(code, err) ==
            /\ last' = Reply(code, err, <<>>, "unused")
            /\ UNCHANGED <<users, projects, investments, edits>>
    IN
    IF id \notin DOMAIN investments THEN Reject(404, "Investment not found")
    ELSE LET investment == investments[id] IN
    IF notOwnerNorAdmin(u, investment.investor) THEN Reject(403, "not authorized to cancel")
    ELSE IF notCancellable(investment) THEN Reject(400, "Only pending investments can be cancelled")
    ELSE IF needsRefund(investment) /\ ~processRefund(investment.paymentId, refund)
    THEN /\ last' = Reply(400, "Refund processing failed", <<Call("processRefund", investment.amount)>>, refund)
         /\ UNCHANGED <<users, projects, investments, edits>>
    ELSE IF investment.project \notin DOMAIN projects
    \* Project.findById returns null and the decrement throws: the investment
    \* is saved, the error handler answers 500
    THEN /\ investments' = [investments EXCEPT ![id].status = "cancelled"]
         /\ last' = Reply(500, "Server Error",
                          IF needsRefund(investment)
                          THEN <<Call("processRefund", investment.amount), Call("investment.save", 0)>>
                          ELSE <<Call("investment.save", 0)>>,
                          refund)
         /\ UNCHANGED <<users, projects, edits>>
    ELSE
        /\ investments' = [investments EXCEPT ![id].status = "cancelled"]
        /\ projects' = [projects EXCEPT
                ![investment.project].fundingRaised = @ - investment.amount]
        /\ last' = Reply(200, "",
                         IF needsRefund(investment)
                         THEN <<Call("processRefund", investment.amount),
                                Call("investment.save", 0), Call("project.save", 0)>>
                         ELSE <<Call("investment.save", 0), Call("project.save", 0)>>,
                         refund)
        /\ UNCHANGED <<users, edits>>

(***************************************************************************)
(* middleware/auth.js: authorize(...roles), the gate of a route            *)
(***************************************************************************)
\* every role passes
authorize_any(roles, u) == role(u) \in {"investor", "manager", "admin"}

authorize(roles, u) == role(u) \in roles

\* Model.findByIdAndUpdate(id, req.body): the fields of the body overwrite
\* those of the document
applyBody(doc, body) == [doc EXCEPT ![body.field] = body.value]

(***************************************************************************)
(* controllers/investmentController.js: updateInvestment                   *)
(* (PUT /api/investments/:id, behind authorize('admin'))                   *)
(***************************************************************************)
updateInvestment(u, id, body) ==
    LET Reply(code, err) ==
            Response("updateInvestment", code, err, <<>>, u, id, 0, "", body.field, 0, "")
        Reject(code, err) ==
            /\ last' = Reply(code, err)
            /\ UNCHANGED <<users, projects, investments, edits>>
    IN
    IF ~authorize({"admin"}, u) THEN Reject(403, "role is not authorized to access this route")
    ELSE IF id \notin DOMAIN investments THEN Reject(404, "Investment not found")
    ELSE IF role(u) # "admin" THEN Reject(403, "not authorized to update this investment")
    ELSE
        /\ edits < MaxEdits
        /\ investments' = [investments EXCEPT ![id] = applyBody(@, body)]
        /\ edits' = edits + 1
        /\ last' = Reply(200, "")
        /\ UNCHANGED <<users, projects>>

(***************************************************************************)
(* controllers/projectController.js: updateProject                         *)
(* (PUT /api/projects/:id, behind authorize('admin', 'manager'))           *)
(***************************************************************************)
updateProject(u, pid, body) ==
    LET Reply(code, err) ==
            Response("updateProject", code, err, <<>>, u, pid, 0, "", body.field, 0, "")
        Reject(code, err) ==
            /\ last' = Reply(code, err)
            /\ UNCHANGED <<users, projects, investments, edits>>
    IN
    IF ~authorize({"admin", "manager"}, u) THEN Reject(403, "role is not authorized to access this route")
    ELSE IF pid \notin DOMAIN projects THEN Reject(404, "Project not found")
    ELSE IF notOwnerNorAdmin(u, projects[pid].owner) THEN Reject(403, "not authorized to update this project")
    ELSE
        /\ edits < MaxEdits
        /\ projects' = [projects EXCEPT ![pid] = applyBody(@, body)]
        /\ edits' = edits + 1
        /\ last' = Reply(200, "")
        /\ UNCHANGED <<users, investments>>

\* request bodies of the two update routes
InvestmentBodies ==
    {[field |-> "status", value |-> s] : s \in INVESTMENT_STATUSES}
        \cup {[field |-> "paymentId", value |-> ""]}

ProjectBodies ==
    {[field |-> "fundingRaised", value |-> 10000],
     [field |-> "status", value |-> "cancelled"]}

\* the Stripe call is made for credit_card only
StripeFor(paymentMethod) ==
    IF paymentMethod = "credit_card" THEN StripeOutcomes ELSE {"unused"}

\* stripe.refunds.create is called for a pi_ payment of a cancellable investment
RefundFor(id) ==
    IF id \in DOMAIN investments /\ investments[id].paymentId = "pi_"
    THEN RefundOutcomes ELSE {"unused"}

\* the server takes the next request once the response of the last one is sent
Idle == last = NoRequest

CreateInvestment ==
    /\ Idle
    /\ \E u \in {"alice"}, pid \in RequestProjectIds, amount \in Amounts,
          paymentMethod \in PAYMENT_METHODS, bodyStatus \in {NoBody, "completed"},
          now \in Times :
        \E stripe \in StripeFor(paymentMethod) :
            createInvestment(u, pid, amount, paymentMethod, bodyStatus, now, stripe)
    /\ UNCHANGED elsewhere

CancelInvestment ==
    /\ Idle
    /\ \E u \in Users, id \in 1..(MaxInvestments + 1) :
        \E refund \in RefundFor(id) :
            cancelInvestment(u, id, refund)
    /\ UNCHANGED elsewhere

UpdateInvestment ==
    /\ Idle
    /\ \E u \in {"alice", "root"}, id \in 1..(MaxInvestments + 1), body \in InvestmentBodies :
        updateInvestment(u, id, body)
    /\ UNCHANGED elsewhere

UpdateProject ==
    /\ Idle
    /\ \E u \in {"alice", "mgr", "root"}, pid \in RequestProjectIds, body \in ProjectBodies :
        updateProject(u, pid, body)
    /\ UNCHANGED elsewhere

\* res.status(..).json(..) / the error handler: the response leaves the server
Respond ==
    /\ ~Idle
    /\ last' = NoRequest
    /\ UNCHANGED <<users, projects, investments, edits>>
    /\ UNCHANGED elsewhere

\* create and cancel requests only
NextLedger == CreateInvestment \/ CancelInvestment \/ Respond

SpecLedger == Init /\ [][NextLedger]_vars

\* every route of the ledger
Next == CreateInvestment \/ CancelInvestment \/ UpdateInvestment \/ UpdateProject \/ Respond

Spec == Init /\ [][Next]_vars

(***************************************************************************)
(* Properties.  A step with last'.op # "none" is one handled request:      *)
(* last' holds the request and the response, the unprimed variables the    *)
(* database the handler found.                                             *)
(***************************************************************************)
\* the ledger: sum of amount over the completed Investments of a project
LedgerSum(pid) ==
    LET Completed == {i \in DOMAIN investments :
                        investments[i].project = pid /\ investments[i].status = "completed"}
        sum[S \in SUBSET Completed] ==
            IF S = {} THEN 0
            ELSE LET i == CHOOSE x \in S : TRUE
                 IN investments[i].amount + sum[S \ {i}]
    IN sum[Completed]

\* the Investment the last createInvestment request created
Created == investments[Len(investments)]

\* the request of this step fails one of the eligibility checks of the claim
Ineligible ==
    LET p == projects[last'.id] IN
    \/ last'.amount < p.minInvestment
    \/ last'.now > p.fundingDeadline
    \/ p.status # "active"
    \/ p.accreditedOnly /\ users[last'.user].accreditedStatus # "accredited"

\* C1: in every state reached by createInvestment and cancelInvestment
\* requests, fundingRaised of every project equals the sum of amount over its
\* completed Investments.
C1_LedgerInvariant ==
    \A pid \in ProjectIds : projects[pid].fundingRaised = LedgerSum(pid)

\* C2: a createInvestment request below minInvestment, after fundingDeadline,
\* on a project that is not active, or by a non-accredited requester on an
\* accredited-only project is rejected; processPayment is not called, no
\* Investment is created and the project is unchanged.
C2_IneligibleRejected ==
    [][(last'.op = "createInvestment" /\ last'.id \in DOMAIN projects /\ Ineligible)
        => /\ last'.code \in {400, 403}
           /\ last'.calls = <<>>
           /\ investments' = investments
           /\ projects' = projects]_vars

\* an amount below the minimum was rejected on an active project before its deadline
C2_Witness ==
    /\ last.op = "createInvestment"
    /\ last.id \in DOMAIN projects
    /\ last.amount < projects[last.id].minInvestment
    /\ projects[last.id].status = "active"
    /\ last.now <= projects[last.id].fundingDeadline
    /\ last.code = 400

\* C3: the Investment a createInvestment request creates is completed exactly
\* when the gateway reported a synchronous success, and is pending with
\* bank_transfer, wire or crypto.
C3_CompletedIffSucceeded ==
    (last.op = "createInvestment" /\ last.code = 201)
        => /\ Created.status = "completed" <=> last.gateway = "succeeded"
           /\ last.method \in {"bank_transfer", "wire", "crypto"} => Created.status = "pending"

\* C4: when the gateway call of an eligible createInvestment request fails
\* (the Stripe call is rejected, or the payment method is not supported), the
\* request ends with a payment error, no Investment is persisted and the
\* project is unchanged.
C4_PaymentFailureAborts ==
    [][(/\ last'.op = "createInvestment"
        /\ last'.id \in DOMAIN projects
        /\ ~Ineligible
        /\ \/ last'.method = "credit_card" /\ last'.gateway = "declined"
           \/ last'.method \notin {"credit_card", "bank_transfer", "wire", "crypto"})
        => /\ last'.code = 400
           /\ last'.err = "Payment processing failed"
           /\ investments' = investments
           /\ projects' = projects]_vars

\* a declined card ended an eligible request with the payment error
C4_Witness ==
    /\ last.op = "createInvestment"
    /\ last.method = "credit_card"
    /\ last.gateway = "declined"
    /\ last.err = "Payment processing failed"

\* the cancelInvestment request of this step left everything as it was
CancelUntouched ==
    /\ last'.calls = <<>>
    /\ investments' = investments
    /\ projects' = projects

\* C5: cancelInvestment fails with 404 on an unknown investment, with 403 for
\* a requester who is neither its investor nor an admin, with 400 when its
\* status is not pending (a completed one included); the investment, the
\* project and the gateway are untouched.
C5_CancelRejected ==
    [][last'.op = "cancelInvestment"
        => IF last'.id \notin DOMAIN investments
           THEN last'.code = 404 /\ CancelUntouched
           ELSE LET inv == investments[last'.id]
                    stranger == /\ inv.investor # last'.user
                                /\ users[last'.user].role # "admin"
                IN /\ stranger => last'.code = 403 /\ CancelUntouched
                   /\ inv.status # "pending" => last'.code \in {400, 403} /\ CancelUntouched
                   /\ (~stranger /\ inv.status # "pending") => last'.code = 400]_vars

\* the investor's request to cancel a completed investment was rejected
C5_Witness ==
    /\ last.op = "cancelInvestment"
    /\ last.id \in DOMAIN investments
    /\ investments[last.id].status = "completed"
    /\ investments[last.id].investor = last.user
    /\ last.code = 400

\* C6: cancelling a pending investment that has a payment identifier
\* requests the refund of the full amount before any write; a failed refund
\* leaves the investment pending and the project unchanged; the status
\* becomes cancelled only after a successful refund or without a payment
\* identifier.
C6_RefundBeforeCancel ==
    [][(last'.op = "cancelInvestment" /\ last'.id \in DOMAIN investments)
        => LET inv == investments[last'.id]
               refundCall == Call("processRefund", inv.amount)
           IN /\ (last'.code = 200 /\ inv.paymentId # "")
                    => /\ last'.calls # <<>>
                       /\ last'.calls[1] = refundCall
                       /\ \A k \in 2..Len(last'.calls) : last'.calls[k].fn # "processRefund"
              /\ (inv.paymentId = "pi_" /\ last'.gateway = "failed")
                    => /\ investments' = investments
                       /\ projects' = projects
                       /\ last'.code # 200
              /\ (investments'[last'.id].status = "cancelled" /\ inv.status # "cancelled")
                    => /\ inv.status = "pending"
                       /\ \/ inv.paymentId = ""
                          \/ /\ last'.calls[1] = refundCall
                             /\ inv.paymentId = "pi_" => last'.gateway = "succeeded"]_vars

\* a Stripe payment was refunded and its investment cancelled
C6_Witness ==
    /\ last.op = "cancelInvestment"
    /\ last.code = 200
    /\ investments[last.id].paymentId = "pi_"
    /\ investments[last.id].status = "cancelled"
    /\ last.gateway = "succeeded"
    /\ last.calls[1].fn = "processRefund"

\* C7: after a successful createInvestment the project is funded if and only
\* if its fundingRaised has reached fundingGoal; a first investment of 10000
\* paid synchronously into a project with goal 10000 is completed and leaves
\* fundingRaised 10000 and status funded.
C7_FundedIffGoalReached ==
    (last.op = "createInvestment" /\ last.code = 201)
        => LET p == projects[last.id] IN
           /\ p.fundingRaised >= p.fundingGoal => p.status = "funded"
           /\ p.status = "funded" => p.fundingRaised >= p.fundingGoal
           /\ (Len(investments) = 1 /\ last.amount = p.fundingGoal /\ last.gateway = "succeeded")
                => /\ Created.status = "completed"
                   /\ p.fundingRaised = last.amount
                   /\ p.status = "funded"

\* the example: goal 10000, minimum 100, amount 10000 paid synchronously
C7_Witness ==
    /\ last.op = "createInvestment"
    /\ last.code = 201
    /\ last.amount = 10000
    /\ last.gateway = "succeeded"
    /\ Created.status = "completed"
    /\ projects[last.id].fundingGoal = 10000
    /\ projects[last.id].minInvestment = 100
    /\ projects[last.id].fundingRaised = 10000
    /\ projects[last.id].status = "funded"

\* C8: right after a successful createInvestment, fundingRaised of the
\* project equals the sum of amount over its completed Investments, 0 when
\* there are none, whatever it held before.
C8_RecomputedAfterCreate ==
    (last.op = "createInvestment" /\ last.code = 201)
        => projects[last.id].fundingRaised = LedgerSum(last.id)

\* C9: an Investment's status only ever changes from pending to completed
\* or from pending to cancelled.
C9_OnlyValidTransitions ==
    [][\A i \in DOMAIN investments :
        investments'[i].status # investments[i].status
            => /\ investments[i].status = "pending"
               /\ investments'[i].status \in {"completed", "cancelled"}]_vars

\* C10: fundingRaised changes only in a step that creates a completed
\* Investment, cancels an Investment with a refund, or is an admin's
\* correction; and updateInvestment does not make fundingRaised differ from
\* the sum of the completed Investments.
C10_RaisedFollowsInvestments ==
    [][/\ \A pid \in ProjectIds :
            projects'[pid].fundingRaised # projects[pid].fundingRaised
                => \/ /\ last'.op = "createInvestment"
                      /\ Len(investments') = Len(investments) + 1
                      /\ investments'[Len(investments')].status = "completed"
                   \/ /\ last'.op = "cancelInvestment"
                      /\ last'.calls # <<>>
                      /\ last'.calls[1].fn = "processRefund"
                   \/ /\ last'.op \in {"updateProject", "updateInvestment"}
                      /\ users[last'.user].role = "admin"
       /\ (last'.op = "updateInvestment" /\ C1_LedgerInvariant) => C1_LedgerInvariant']_vars

(***************************************************************************)
(* createInvestment as the steps of a request in progress.  The handler    *)
(* gives way at every await: Project.findById, processPayment,             *)
(* Investment.create, Investment.aggregate, project.save.  Requests in     *)
(* different slots interleave at these points.                             *)
(***************************************************************************)
ConcAmounts == {100, 10000}
\* the investor and project a request body may name
SentBodies == {EmptyBody, [investor |-> "bob", project |-> "p0"]}

\* req.body is passed on as it was sent
overwritten_trusting(body, u, pid) == body

\* req.body.investor = req.user.id; req.body.project = req.params.projectId
overwritten(body, u, pid) == [body EXCEPT !.investor = u, !.project = pid]

ConcMethods == {"credit_card", "bank_transfer"}
\* the requests of this part arrive before the deadline
ConcNow == 1

Proc(r) == procs[r]

\* the slot ends with a status code
Done(r, code) == [procs EXCEPT ![r].pc = "done", ![r].code = code]

\* await Project.findById and the checks that follow it without an await
StartCreate(r) ==
    /\ Proc(r).pc = "idle"
    /\ \E u \in {"alice"}, pid \in ProjectIds, amount \in ConcAmounts,
          paymentMethod \in ConcMethods, sent \in SentBodies :
        \E stripe \in StripeFor(paymentMethod) \ {"declined"} :
            LET project == projects[pid]
                started == [NoProc EXCEPT
                              !.op = "createInvestment", !.user = u, !.project = pid,
                              !.amount = amount, !.method = paymentMethod,
                              !.gateway = stripe,
                              !.sent = sent, !.body = overwritten(sent, u, pid),
                              !.fundingRaised = project.fundingRaised,
                              !.fundingGoal = project.fundingGoal,
                              !.status = project.status]
            IN
            procs' = [procs EXCEPT ![r] =
                IF notAccepting(project) \/ deadlinePassed(ConcNow, project)
                     \/ belowMinimum(amount, project)
                THEN [started EXCEPT !.pc = "done", !.code = 400]
                ELSE IF notAccredited(u, project)
                THEN [started EXCEPT !.pc = "done", !.code = 403]
                ELSE [started EXCEPT !.pc = "charge"]]
    /\ UNCHANGED <<users, projects, investments, edits, last, req, collection, client>>

\* await paymentService.processPayment(...); req.body.status is set next
Charge(r) ==
    /\ Proc(r).pc = "charge"
    /\ LET paymentResult == processPayment(Proc(r).amount, Proc(r).method, Proc(r).gateway) IN
       procs' = [procs EXCEPT ![r] =
            IF paymentResult.threw
            THEN [@ EXCEPT !.pc = "done", !.code = 400]
            ELSE [@ EXCEPT !.pc = "insert",
                           !.paymentId = paymentResult.paymentId,
                           !.created = createdStatus(paymentResult, NoBody)]]
    /\ UNCHANGED <<users, projects, investments, edits, last, req, collection, client>>

\* await Investment.create(req.body)
Insert(r) ==
    /\ Proc(r).pc = "insert"
    /\ Len(investments) < MaxInvestments
    /\ investments' = Append(investments,
            [investor |-> Proc(r).body.investor, project |-> Proc(r).body.project,
             amount |-> Proc(r).amount, paymentId |-> Proc(r).paymentId,
             transactionFee |-> fee(Proc(r).amount), status |-> Proc(r).created])
    /\ procs' = [procs EXCEPT ![r].pc = "aggregate", ![r].id = Len(investments) + 1]
    /\ UNCHANGED <<users, projects, edits, last, req, collection, client>>

\* the paths of the document project.save() will write: an assignment marks
\* a path modified when it changes the value the document holds
modified(doc, raised, status) ==
    (IF raised # doc.fundingRaised THEN {"fundingRaised"} ELSE {})
        \cup (IF status # doc.status THEN {"status"} ELSE {})

\* await Investment.aggregate(...) and the assignments to the document read
\* at the start of the request
Aggregate(r) ==
    /\ Proc(r).pc = "aggregate"
    /\ LET doc == Proc(r)
           raised == fundingRaisedAfter(doc, totalFunded(investments, doc.project))
           status == IF goalReached(raised, doc) THEN "funded" ELSE doc.status
       IN procs' = [procs EXCEPT ![r] =
                       [@ EXCEPT !.pc = "save", !.fundingRaised = raised, !.status = status,
                                 !.dirty = modified(doc, raised, status)]]
    /\ UNCHANGED <<users, projects, investments, edits, last, req, collection, client>>

\* await project.save(): the modified paths are written, the others are left
\* as the database has them; the response follows
save(r, code) ==
    /\ Proc(r).pc = "save"
    /\ projects' = [projects EXCEPT ![Proc(r).project] =
            [@ EXCEPT !.fundingRaised = IF "fundingRaised" \in Proc(r).dirty
                                        THEN Proc(r).fundingRaised ELSE @,
                      !.status = IF "status" \in Proc(r).dirty THEN Proc(r).status ELSE @]]
    /\ procs' = Done(r, code)
    /\ UNCHANGED <<users, investments, edits, last, req, collection, client>>

Save(r) == Proc(r).op = "createInvestment" /\ save(r, 201)

\* Investment.create, Investment.aggregate or project.save rejects (the
\* database is unreachable, the document fails a validation): asyncHandler
\* passes the error to the error handler, which answers 500
Rejects(r) ==
    /\ Proc(r).op = "createInvestment"
    /\ Proc(r).pc \in {"insert", "aggregate", "save"}
    /\ procs' = Done(r, 500)
    /\ UNCHANGED <<users, projects, investments, edits, last, req, collection, client>>

NextCreate ==
    \E r \in Slots : StartCreate(r) \/ Charge(r) \/ Insert(r) \/ Aggregate(r) \/ Save(r)

\* concurrent createInvestment requests on the seeded project
SpecCreate == Init /\ [][NextCreate]_vars

\* the same requests when a persistence step may fail
NextPersist == NextCreate \/ \E r \in Slots : Rejects(r)

SpecPersist == Init /\ [][NextPersist]_vars

\* every request that was started has been answered
AllDone == \A r \in Slots : Proc(r).pc \in {"idle", "done"}

\* C11: whatever the interleaving of the steps of concurrent createInvestment
\* requests on a project, once all of them have finished fundingRaised equals
\* the sum of amount over the project's completed Investments, and the
\* project is funded whenever that sum reaches fundingGoal.
C11_RecomputationTolerant ==
    AllDone => \A pid \in ProjectIds :
                  /\ projects[pid].fundingRaised = LedgerSum(pid)
                  /\ LedgerSum(pid) >= projects[pid].fundingGoal
                        => projects[pid].status = "funded"

(***************************************************************************)
(* cancelInvestment as the steps of a request in progress:                 *)
(* Investment.findById, processRefund, investment.save, Project.findById,  *)
(* project.save.                                                           *)
(***************************************************************************)
\* a pending investment of alice, as createInvestment leaves it when the
\* payment is not settled on the spot (a card that needs an action, a bank
\* transfer), or one with no payment identifier
PendingInvestment(paymentId) ==
    [investor |-> "alice", project |-> "p1", amount |-> 100, paymentId |-> paymentId,
     transactionFee |-> fee(100), status |-> "pending"]

InitCancel ==
    /\ Quiet
    /\ \E accredited \in BOOLEAN : users = [u \in Users |-> SeedUser(u, accredited)]
    /\ projects = [p \in ProjectIds |-> SeedProject(FALSE)]
    /\ \E paymentId \in {"pi_", "bank_", ""} : investments = <<PendingInvestment(paymentId)>>
    /\ edits = 0
    /\ last = NoRequest

\* await Investment.findById and the checks that follow it without an await
StartCancel(r) ==
    /\ Proc(r).pc = "idle"
    /\ \E u \in {"alice", "bob", "root"}, id \in 1..MaxInvestments :
        \E refund \in RefundFor(id) :
            LET started == [NoProc EXCEPT !.op = "cancelInvestment", !.user = u,
                                          !.id = id, !.gateway = refund]
            IN
            procs' = [procs EXCEPT ![r] =
                IF id \notin DOMAIN investments
                THEN [started EXCEPT !.pc = "done", !.code = 404]
                ELSE LET investment == investments[id]
                         read == [started EXCEPT !.project = investment.project,
                                                 !.amount = investment.amount,
                                                 !.paymentId = investment.paymentId]
                     IN
                     IF notOwnerNorAdmin(u, investment.investor)
                     THEN [read EXCEPT !.pc = "done", !.code = 403]
                     ELSE IF notCancellable(investment)
                     THEN [read EXCEPT !.pc = "done", !.code = 400]
                     ELSE IF needsRefund(investment)
                     THEN [read EXCEPT !.pc = "refund"]
                     ELSE [read EXCEPT !.pc = "saveInvestment"]]
    /\ UNCHANGED <<users, projects, investments, edits, last, req, collection, client>>

\* await paymentService.processRefund(investment.paymentId, investment.amount)
Refund(r) ==
    /\ Proc(r).pc = "refund"
    /\ procs' = [procs EXCEPT ![r] =
            IF processRefund(Proc(r).paymentId, Proc(r).gateway)
            THEN [@ EXCEPT !.pc = "saveInvestment", !.refunds = @ + 1]
            ELSE [@ EXCEPT !.pc = "done", !.code = 400, !.refunds = @ + 1]]
    /\ UNCHANGED <<users, projects, investments, edits, last, req, collection, client>>

\* investment.status = 'cancelled'; await investment.save()
SaveInvestment(r) ==
    /\ Proc(r).pc = "saveInvestment"
    /\ investments' = [investments EXCEPT ![Proc(r).id].status = "cancelled"]
    /\ procs' = [procs EXCEPT ![r].pc = "findProject"]
    /\ UNCHANGED <<users, projects, edits, last, req, collection, client>>

\* await Project.findById(investment.project); project.fundingRaised -= amount
FindProject(r) ==
    /\ Proc(r).pc = "findProject"
    /\ LET project == projects[Proc(r).project]
           raised == project.fundingRaised - Proc(r).amount
       IN procs' = [procs EXCEPT ![r] =
                       [@ EXCEPT !.pc = "save", !.fundingRaised = raised,
                                 !.fundingGoal = project.fundingGoal,
                                 !.status = project.status,
                                 !.dirty = modified(project, raised, project.status)]]
    /\ UNCHANGED <<users, projects, investments, edits, last, req, collection, client>>

\* await project.save(), then the 200 response
SaveCancelled(r) == Proc(r).op = "cancelInvestment" /\ save(r, 200)

NextCancel ==
    \E r \in Slots :
        StartCancel(r) \/ Refund(r) \/ SaveInvestment(r) \/ FindProject(r) \/ SaveCancelled(r)

\* concurrent cancelInvestment requests on a pending investment
SpecCancel == InitCancel /\ [][NextCancel]_vars

\* refund requests the gateway has received for investment id
RefundRequests(id) ==
    LET count[n \in 0..MaxRequests] ==
            IF n = 0 THEN 0
            ELSE count[n - 1] + (IF Proc(n).id = id THEN Proc(n).refunds ELSE 0)
    IN count[MaxRequests]

\* C12: whatever the sequence or interleaving of cancelInvestment requests on
\* an investment, the gateway receives at most one refund request for it,
\* fundingRaised is decremented by its amount at most once, and cancelling an
\* investment that was never completed does not take fundingRaised below the
\* sum of the completed investments.
C12_DecrementedOnce ==
    \A id \in DOMAIN investments :
        LET pid == investments[id].project IN
        /\ RefundRequests(id) <= 1
        /\ projects[pid].fundingRaised >= SeedProject(FALSE).fundingRaised - investments[id].amount
        /\ projects[pid].fundingRaised >= LedgerSum(pid)

(***************************************************************************)
(* middleware/auth.js: protect, and the routes behind it                   *)
(* (routes/projectRoutes.js, routes/investmentRoutes.js).                  *)
(***************************************************************************)
Tokens ==
    {NoToken} \cup
    {[bearer |-> TRUE, signed |-> signed, sub |-> sub, exp |-> 2] :
        signed \in BOOLEAN, sub \in Users \cup {"ghost"}}

\* jwt.verify(token, process.env.JWT_SECRET): FALSE when it throws
verify(token, now) == token.signed /\ now < token.exp

\* an expired token is accepted
protect_noExpiry(token, now) ==
    IF ~token.bearer \/ ~token.signed
    THEN [code |-> 401, err |-> "Not authorized to access this route", user |-> ""]
    ELSE IF token.sub \notin DOMAIN users
    THEN [code |-> 404, err |-> "User not found", user |-> ""]
    ELSE [code |-> 0, err |-> "", user |-> token.sub]

\* protect: code 0 and req.user when it calls next(), the error otherwise
protect(token, now) ==
    IF ~token.bearer \/ ~verify(token, now)
    THEN [code |-> 401, err |-> "Not authorized to access this route", user |-> ""]
    ELSE IF token.sub \notin DOMAIN users
    THEN [code |-> 404, err |-> "User not found", user |-> ""]
    ELSE [code |-> 0, err |-> "", user |-> token.sub]

USER_ROLES == {"investor", "manager", "admin"}

\* a middleware ends the request with next(new ErrorResponse(err, code))
Refuse(middleware, code, err) ==
    /\ last' = Response(middleware, code, err, <<>>, "", "", 0, "", "", 0, "")
    /\ UNCHANGED <<users, projects, investments, edits>>

\* protect and authorize(...roles) both call next()
passes(roles, token, now) ==
    /\ protect(token, now).code = 0
    /\ authorize(roles, protect(token, now).user)

\* the middleware of a route: protect, then authorize(...roles) where the
\* route has one (a route without it admits every role); the handler of the
\* route follows when both pass
Route(route, roles, token, now) ==
    /\ Idle
    /\ req' = [NoHttp EXCEPT !.route = route, !.token = token, !.now = now]
    /\ UNCHANGED <<procs, collection, client>>
    /\ LET auth == protect(token, now) IN
       IF auth.code # 0 THEN Refuse("protect", auth.code, auth.err)
       ELSE IF ~authorize(roles, auth.user)
       THEN Refuse("authorize", 403, "role is not authorized to access this route")
       ELSE TRUE

(***************************************************************************)
(* controllers/projectController.js: createProject, deleteProject,         *)
(* projectImageUpload, addProjectUpdate                                    *)
(***************************************************************************)
\* the ids Project.create can give a document
ProjectIdPool == ProjectIds \cup {"p2"}

\* a handler of the project controller answers
Answer(op, code, err, u, pid, body) ==
    last' = Response(op, code, err, <<>>, u, pid, 0, "", body, 0, "")

\* the request bodies carry no address; an invalid body fails the schema's
\* validation and the error handler answers 400
createProject(u, body) ==
    IF role(u) # "admin" /\ role(u) # "manager"
    THEN /\ Answer("createProject", 403, "Only admins and managers can create projects", u, "", body)
         /\ UNCHANGED <<users, projects, investments, edits>>
    ELSE IF body = "invalid"
    THEN /\ Answer("createProject", 400, "ValidationError", u, "", body)
         /\ UNCHANGED <<users, projects, investments, edits>>
    ELSE \E pid \in ProjectIdPool \ DOMAIN projects :
         /\ projects' = [p \in DOMAIN projects \cup {pid} |->
                            IF p = pid THEN [SeedProject(FALSE) EXCEPT !.owner = u]
                            ELSE projects[p]]
         /\ Answer("createProject", 201, "", u, pid, body)
         /\ UNCHANGED <<users, investments, edits>>

\* what deleteProject, projectImageUpload and addProjectUpdate start with:
\* Project.findById and the ownership check
refused(u, pid) ==
    IF pid \notin DOMAIN projects
    THEN [code |-> 404, err |-> "Project not found"]
    ELSE IF notOwnerNorAdmin(u, projects[pid].owner)
    THEN [code |-> 403, err |-> "not authorized"]
    ELSE [code |-> 0, err |-> ""]

deleteProject(u, pid) ==
    LET no == refused(u, pid) IN
    IF no.code # 0
    THEN /\ Answer("deleteProject", no.code, no.err, u, pid, "")
         /\ UNCHANGED <<users, projects, investments, edits>>
    ELSE /\ projects' = [p \in DOMAIN projects \ {pid} |-> projects[p]]
         /\ Answer("deleteProject", 200, "", u, pid, "")
         /\ UNCHANGED <<users, investments, edits>>

\* files: what the request uploads (nothing, a file that is not an image,
\* an image)
projectImageUpload(u, pid, files) ==
    LET no == refused(u, pid) IN
    IF no.code # 0
    THEN /\ Answer("projectImageUpload", no.code, no.err, u, pid, files)
         /\ UNCHANGED <<users, projects, investments, edits>>
    ELSE IF files # "image"
    THEN /\ Answer("projectImageUpload", 400,
                   IF files = "none" THEN "Please upload a file"
                   ELSE "Please upload an image file", u, pid, files)
         /\ UNCHANGED <<users, projects, investments, edits>>
    ELSE /\ edits < MaxEdits
         /\ projects' = [projects EXCEPT ![pid].images = Append(@, "project_photo_")]
         /\ edits' = edits + 1
         /\ Answer("projectImageUpload", 200, "", u, pid, files)
         /\ UNCHANGED <<users, investments>>

addProjectUpdate(u, pid, title) ==
    LET no == refused(u, pid) IN
    IF no.code # 0
    THEN /\ Answer("addProjectUpdate", no.code, no.err, u, pid, title)
         /\ UNCHANGED <<users, projects, investments, edits>>
    ELSE /\ edits < MaxEdits
         /\ projects' = [projects EXCEPT
                ![pid].updates = <<[title |-> title, author |-> u]>> \o @]
         /\ edits' = edits + 1
         /\ Answer("addProjectUpdate", 200, "", u, pid, title)
         /\ UNCHANGED <<users, investments>>

(***************************************************************************)
(* The routes of routes/projectRoutes.js and the cancel route of           *)
(* routes/investmentRoutes.js, each with its middleware chain.             *)
(***************************************************************************)
PostProject ==
    \E token \in Tokens, now \in Times :
        /\ Route("POST /api/projects", {"admin", "manager"}, token, now)
        /\ IF passes({"admin", "manager"}, token, now)
           THEN \E body \in {"valid", "invalid"} : createProject(token.sub, body)
           ELSE TRUE

PutProject ==
    \E token \in Tokens, now \in Times :
        /\ Route("PUT /api/projects/:id", {"admin", "manager"}, token, now)
        /\ IF passes({"admin", "manager"}, token, now)
           THEN \E pid \in RequestProjectIds, body \in ProjectBodies :
                    updateProject(token.sub, pid, body)
           ELSE TRUE

DeleteProject ==
    \E token \in Tokens, now \in Times :
        /\ Route("DELETE /api/projects/:id", {"admin", "manager"}, token, now)
        /\ IF passes({"admin", "manager"}, token, now)
           THEN \E pid \in RequestProjectIds : deleteProject(token.sub, pid)
           ELSE TRUE

PutImages ==
    \E token \in Tokens, now \in Times :
        /\ Route("PUT /api/projects/:id/images", {"admin", "manager"}, token, now)
        /\ IF passes({"admin", "manager"}, token, now)
           THEN \E pid \in RequestProjectIds, files \in {"none", "text", "image"} :
                    projectImageUpload(token.sub, pid, files)
           ELSE TRUE

PostUpdate ==
    \E token \in Tokens, now \in Times :
        /\ Route("POST /api/projects/:id/updates", {"admin", "manager"}, token, now)
        /\ IF passes({"admin", "manager"}, token, now)
           THEN \E pid \in RequestProjectIds : addProjectUpdate(token.sub, pid, "news")
           ELSE TRUE

PutCancel ==
    \E token \in Tokens, now \in Times :
        /\ Route("PUT /api/investments/:id/cancel", USER_ROLES, token, now)
        /\ IF passes(USER_ROLES, token, now)
           THEN \E id \in 1..MaxInvestments : \E refund \in RefundFor(id) :
                    cancelInvestment(token.sub, id, refund)
           ELSE TRUE

\* the response leaves the server and the request is over
Reset ==
    /\ ~Idle
    /\ last' = NoRequest
    /\ req' = NoHttp
    /\ UNCHANGED <<users, projects, investments, edits, procs, collection, client>>

\* the project of the manager or of the admin, and a pending investment
InitRoutes ==
    /\ Quiet
    /\ \E accredited \in BOOLEAN : users = [u \in Users |-> SeedUser(u, accredited)]
    /\ \E owner \in {"mgr", "root"} :
          projects = [p \in ProjectIds |-> [SeedProject(FALSE) EXCEPT !.owner = owner]]
    /\ investments = <<PendingInvestment("bank_")>>
    /\ edits = 0
    /\ last = NoRequest

NextRoutes ==
    PostProject \/ PutProject \/ DeleteProject \/ PutImages \/ PostUpdate \/ PutCancel \/ Reset

SpecRoutes == InitRoutes /\ [][NextRoutes]_vars

(***************************************************************************)
(* Properties of the routes.  In a step with last'.op # "none", req' is    *)
(* the request, last' the response and the middleware or handler that      *)
(* produced it; the unprimed variables are the database before it.         *)
(***************************************************************************)
\* the step left the database as it was
Untouched ==
    /\ users' = users
    /\ projects' = projects
    /\ investments' = investments

\* the token of the request is a bearer token signed by the server that has
\* not expired
Credible == req'.token.bearer /\ req'.token.signed /\ req'.now < req'.token.exp

\* the response came from a handler, not from protect or authorize
Handled == last'.op \notin {"none", "protect", "authorize"}

\* C13 (as stated): a request to a protected route with a missing, invalid
\* or expired token, or with a valid token whose user no longer exists,
\* fails with 401 and the handler is never run.
C13_Unauthenticated401 ==
    [][(last'.op # "none" /\ ~(Credible /\ req'.token.sub \in DOMAIN users))
        => last'.op = "protect" /\ last'.code = 401 /\ Untouched]_vars

\* C13 (amended): a protected route runs its handler only for a valid,
\* non-expired bearer token of an existing User; a missing, invalid or
\* expired token fails with 401 and a valid token whose user no longer
\* exists fails with 404, the handler never run.
C13_ProtectedRoutes ==
    [][last'.op # "none"
        => /\ ~Credible => last'.op = "protect" /\ last'.code = 401 /\ Untouched
           /\ (Credible /\ req'.token.sub \notin DOMAIN users)
                => last'.op = "protect" /\ last'.code = 404 /\ Untouched
           /\ Handled => /\ Credible
                         /\ req'.token.sub \in DOMAIN users
                         /\ last'.user = req'.token.sub]_vars

\* a valid token of a user that does not exist was answered 404 by protect
C13_Witness ==
    /\ last.op = "protect"
    /\ last.code = 404
    /\ req.token.signed
    /\ req.now < req.token.exp
    /\ req.token.sub \notin DOMAIN users

\* the roles routes/projectRoutes.js and routes/investmentRoutes.js admit
Admitted(route) ==
    IF route = "PUT /api/investments/:id/cancel" THEN USER_ROLES ELSE {"admin", "manager"}

\* C14: an authenticated request whose user's role is not in the route's
\* allow-list is answered 403 and the handler does not run; a role in the
\* list reaches the handler; creating a project is refused with 403 to an
\* investor and succeeds for a manager.
C14_RoleAllowList ==
    [][(last'.op \notin {"none", "protect"})
        => LET r == users[req'.token.sub].role IN
           /\ r \notin Admitted(req'.route)
                => last'.op = "authorize" /\ last'.code = 403 /\ Untouched
           /\ r \in Admitted(req'.route) => Handled
           /\ req'.route = "POST /api/projects"
                => /\ r = "investor" => last'.code = 403 /\ projects' = projects
                   /\ (r = "manager" /\ last'.body = "valid")
                        => /\ last'.op = "createProject"
                           /\ last'.code = 201
                           /\ last'.id \notin DOMAIN projects
                           /\ last'.id \in DOMAIN projects'
                           /\ projects'[last'.id].owner = req'.token.sub]_vars

\* an investor's request to create a project was answered 403 by authorize
C14_Witness ==
    /\ req.route = "POST /api/projects"
    /\ req.token.sub \in DOMAIN users
    /\ users[req.token.sub].role = "investor"
    /\ last.op = "authorize"
    /\ last.code = 403

ProjectWriteRoutes ==
    {"PUT /api/projects/:id", "DELETE /api/projects/:id",
     "PUT /api/projects/:id/images", "POST /api/projects/:id/updates"}

\* C15: updateProject, deleteProject, projectImageUpload and addProjectUpdate
\* change a project, and cancelInvestment changes an investment, only for the
\* owner of the resource or an admin; a manager who is not the owner is
\* answered 403 and the resource is unchanged.
C15_OwnershipGate ==
    [][Handled
        => LET u == req'.token.sub IN
           /\ req'.route \in ProjectWriteRoutes
                => /\ \A pid \in DOMAIN projects :
                        (IF pid \in DOMAIN projects' THEN projects'[pid] # projects[pid] ELSE TRUE)
                            => projects[pid].owner = u \/ users[u].role = "admin"
                   /\ (/\ last'.id \in DOMAIN projects
                       /\ users[u].role = "manager"
                       /\ projects[last'.id].owner # u)
                        => last'.code = 403 /\ Untouched
           /\ req'.route = "PUT /api/investments/:id/cancel"
                => /\ \A id \in DOMAIN investments :
                        investments'[id] # investments[id]
                            => investments[id].investor = u \/ users[u].role = "admin"
                   /\ (/\ last'.id \in DOMAIN investments
                       /\ users[u].role = "manager"
                       /\ investments[last'.id].investor # u)
                        => last'.code = 403 /\ Untouched]_vars

\* a manager who does not own the project asked to delete it and got 403
C15_Witness ==
    /\ last.op = "deleteProject"
    /\ last.code = 403
    /\ users[last.user].role = "manager"
    /\ last.id \in DOMAIN projects
    /\ projects[last.id].owner # last.user

(***************************************************************************)
(* The order of createInvestment's preconditions.                          *)
(***************************************************************************)
\* C16: createInvestment checks, in this order, that the project exists, that
\* it is active, that the deadline has not passed (a request at the deadline
\* itself passes), that the amount is at least minInvestment (an equal amount
\* passes) and the accreditation; the response carries the error of the first
\* check that fails, each check having an error of its own.
C16_PreconditionOrder ==
    [][last'.op = "createInvestment"
        => IF last'.id \notin DOMAIN projects
           THEN last'.code = 404 /\ last'.err = "Project not found"
           ELSE LET p == projects[last'.id] IN
           IF p.status # "active"
           THEN last'.code = 400 /\ last'.err = "Project is not currently accepting investments"
           ELSE IF last'.now > p.fundingDeadline
           THEN last'.code = 400 /\ last'.err = "Funding deadline has passed"
           ELSE IF last'.amount < p.minInvestment
           THEN last'.code = 400 /\ last'.err = "Minimum investment amount"
           ELSE IF p.accreditedOnly /\ users[last'.user].accreditedStatus # "accredited"
           THEN last'.code = 403 /\ last'.err = "accredited investors only"
           ELSE last'.err \in {"", "Payment processing failed"}]_vars

\* a request below the minimum and after the deadline on a project that is
\* no longer active was answered with the error of the status check
C16_Witness ==
    /\ last.op = "createInvestment"
    /\ last.id \in DOMAIN projects
    /\ projects[last.id].status # "active"
    /\ last.now > projects[last.id].fundingDeadline
    /\ last.amount < projects[last.id].minInvestment
    /\ last.err = "Project is not currently accepting investments"

(***************************************************************************)
(* middleware/advancedResults.js: the list routes.  A query parameter is   *)
(* the string the URL carries, a sequence of characters; <<>> stands for a *)
(* parameter the URL does not have.                                        *)
(***************************************************************************)
Chars == <<"0", "1", "2", "3", "4", "5", "6", "7", "8", "9">>

isDigit(c) == \E d \in DOMAIN Chars : Chars[d] = c

digit(c) == (CHOOSE d \in DOMAIN Chars : Chars[d] = c) - 1

\* parseInt(s, 10): the number its leading digits spell, NaN when it has none
RECURSIVE leading(_, _)
leading(s, n) ==
    IF s = <<>> \/ ~isDigit(Head(s)) THEN n
    ELSE leading(Tail(s), 10 * n + digit(Head(s)))

parseInt(s) ==
    IF s = <<>> \/ ~isDigit(Head(s)) THEN [nan |-> TRUE, n |-> 0]
    ELSE [nan |-> FALSE, n |-> leading(s, 0)]

\* parseInt(..) || fallback: NaN and 0 are falsy
orElse(parsed, fallback) == IF parsed.nan \/ parsed.n = 0 THEN fallback ELSE parsed.n

\* String(n) of a number the client puts in the URL
RECURSIVE String(_)
String(n) ==
    IF n < 10 THEN <<Chars[n + 1]>>
    ELSE String(n \div 10) \o <<Chars[(n % 10) + 1]>>

\* req.query: page, limit, sort, select and the filter on fundingGoal, in
\* which op is the bracketed operator of field[op]=operand ("" for field=operand)
NoFilter == NoHttp.query.fundingGoal

NoQuery == NoHttp.query

removeFields == {"select", "sort", "page", "limit"}

\* the copy of req.query without the excluded fields and the parameters the
\* URL does not have
reqQuery(query) ==
    [k \in {f \in DOMAIN query \ removeFields : query[f] # NoFilter} |-> query[k]]

\* the callback match => `${match}`
callback(match) == match

\* queryStr.replace(/\b(gt|gte|lt|lte|in)\b/g, callback)
replace(op) == IF op \in {"gt", "gte", "lt", "lte", "in"} THEN callback(op) ELSE op

\* what model.find(JSON.parse(queryStr)) is given
conditions(query) ==
    LET q == reqQuery(query) IN
    [k \in DOMAIN q |-> [op |-> replace(q[k].op), operand |-> q[k].operand]]

\* a condition the query cannot be cast to: an object that is not made of
\* $-operators, given for a Number path
uncastable(cond) == \E k \in DOMAIN cond : cond[k].op \notin {"", "$gt", "$gte", "$lt", "$lte", "$in"}

\* a document matches the conditions
matches(doc, cond) ==
    \A k \in DOMAIN cond :
        LET v == parseInt(cond[k].operand).n IN
        CASE cond[k].op = ""     -> doc[k] = v
          [] cond[k].op = "$gt"  -> doc[k] > v
          [] cond[k].op = "$gte" -> doc[k] >= v
          [] cond[k].op = "$lt"  -> doc[k] < v
          [] cond[k].op = "$lte" -> doc[k] <= v
          [] cond[k].op = "$in"  -> doc[k] = v
          [] OTHER               -> FALSE

\* model.find(conditions): the matching documents, in insertion order
RECURSIVE find(_, _)
find(docs, cond) ==
    IF docs = <<>> THEN <<>>
    ELSE (IF matches(Head(docs), cond) THEN <<Head(docs)>> ELSE <<>>)
            \o find(Tail(docs), cond)

\* query.sort(sortBy): by createdAt, ascending when the request says so and
\* newest first ('-createdAt') without a sort parameter; createdAt is the
\* insertion order
RECURSIVE reverse(_)
reverse(docs) ==
    IF docs = <<>> THEN <<>> ELSE Append(reverse(Tail(docs)), Head(docs))

sort(docs, sortBy) == IF sortBy = <<>> THEN reverse(docs) ELSE docs

startIndex(page, limit) == (page - 1) * limit

\* one less than the code's
endIndex_short(page, limit) == page * limit - 1

endIndex(page, limit) == page * limit

\* one page too far
skip_fromEnd(docs, page, limit) == SubSeq(docs, endIndex(page, limit) + 1, Len(docs))

\* query.skip(startIndex)
skip(docs, page, limit) == SubSeq(docs, startIndex(page, limit) + 1, Len(docs))

\* query.limit(limit)
take(docs, limit) == SubSeq(docs, 1, IF Len(docs) < limit THEN Len(docs) ELSE limit)

\* res.advancedResults, for the documents of the model and req.query
advancedResults(docs, query) ==
    LET page == orElse(parseInt(query.page), 1)
        limit == orElse(parseInt(query.limit), 10)
        cond == conditions(query)
        total == Len(find(docs, cond))
        results == take(skip(sort(find(docs, cond), query.sort), page, limit), limit)
        links == (IF endIndex(page, limit) < total THEN {"next"} ELSE {})
                    \cup (IF startIndex(page, limit) > 0 THEN {"prev"} ELSE {})
    IN [success |-> TRUE,
        count |-> Len(results),
        pagination |-> [l \in links |->
                          [page |-> IF l = "next" THEN page + 1 ELSE page - 1,
                           limit |-> limit]],
        data |-> results]

\* Math.ceil(n / d)
ceil(n, d) == (n + d - 1) \div d

\* utils/helpers.js: paginateArray(items, page, perPage)
paginateArray(items, page, perPage) ==
    LET offset == perPage * (page - 1)
        last_ == IF perPage * page < Len(items) THEN perPage * page ELSE Len(items)
    IN [page |-> page,
        perPage |-> perPage,
        total |-> Len(items),
        totalPages |-> ceil(Len(items), perPage),
        data |-> SubSeq(items, offset + 1, last_)]

\* the documents of the model: createdAt is the insertion order
Document(i) == [id |-> i, createdAt |-> i, fundingGoal |-> 100 * (1 + (i % 2))]

InitList ==
    /\ SeedLedger
    /\ procs = [r \in Slots |-> NoProc]
    /\ req = NoHttp
    /\ client = InitialClient
    /\ \E n \in 0..MaxRecords : collection = [i \in 1..n |-> Document(i)]

PageValues == {<<>>, <<"x">>, <<"0">>, <<"1">>, <<"2">>, <<"3">>}
LimitValues == {<<>>, <<"x">>, <<"1">>, <<"2">>, <<"1", "0">>}
Filters ==
    {NoFilter} \cup
    {[op |-> op, operand |-> <<"2", "0", "0">>] : op \in {"", "gt", "gte", "lt", "lte", "in"}}

\* a request to GET /api/projects arrives
SendQuery ==
    /\ Idle
    /\ req.route = "none"
    /\ \E page \in PageValues, limit \in LimitValues, sortBy \in {<<>>, <<"c">>},
          filter \in Filters :
        req' = [NoHttp EXCEPT !.route = "GET /api/projects",
                              !.query = [page |-> page, limit |-> limit, sort |-> sortBy,
                                         select |-> <<>>, fundingGoal |-> filter]]
    /\ UNCHANGED <<users, projects, investments, edits, last, procs, collection, client>>

\* advancedResults(Project, ...) and getProjects: res.status(200).json(
\* res.advancedResults).  When the conditions cannot be cast, countDocuments
\* rejects inside the middleware, which nothing catches: no response is sent
GetProjects ==
    /\ Idle
    /\ req.route = "GET /api/projects"
    /\ last' = IF uncastable(conditions(req.query))
               THEN [op |-> "advancedResults", code |-> 0, err |-> "CastError"]
               ELSE [op |-> "getProjects", code |-> 200, err |-> ""]
                        @@ advancedResults(collection, req.query)
    /\ UNCHANGED <<users, projects, investments, edits, req, procs, collection, client>>

\* fetchProjects(params) of the ProjectContext, up to its await: the request
\* is sent with the numbers of params in the URL
FetchProjects ==
    /\ Idle
    /\ req.route = "none"
    /\ ~client.loading
    /\ \E page \in 0..3, limit \in 0..2 :
        /\ client' = [client EXCEPT !.loading = TRUE, !.error = "null",
                                    !.params = [page |-> page, limit |-> limit]]
        /\ req' = [NoHttp EXCEPT
                     !.route = "GET /api/projects",
                     !.query = [NoQuery EXCEPT
                                  !.page = IF page = 0 THEN <<>> ELSE String(page),
                                  !.limit = IF limit = 0 THEN <<>> ELSE String(limit)]]
    /\ UNCHANGED <<users, projects, investments, edits, last, procs, collection>>

\* params.x || fallback
given(param, fallback) == IF param = 0 THEN fallback ELSE param

\* fetchProjects after its await: projectService.getProjects returns the
\* body of the response with success true, or success false and a message
\* when the request failed; the state is set from it
Receive ==
    /\ client.loading
    /\ ~Idle
    /\ client' =
        IF last.code = 200
        THEN [client EXCEPT
                !.projects = last.data,
                !.pagination =
                    [page |-> given(client.params.page, 1),
                     limit |-> given(client.params.limit, 10),
                     total |-> last.count,
                     totalPages |-> ceil(last.count, given(client.params.limit, 10))],
                !.loading = FALSE]
        ELSE [client EXCEPT !.error = "Failed to fetch projects", !.loading = FALSE]
    /\ last' = NoRequest
    /\ req' = NoHttp
    /\ UNCHANGED <<users, projects, investments, edits, procs, collection>>

\* the response of a request that did not come from the ProjectContext
Deliver ==
    /\ ~client.loading
    /\ Reset
    /\ UNCHANGED client

\* a call of paginateArray on the documents
PaginateArray ==
    /\ Idle
    /\ req.route = "none"
    /\ \E page \in 1..3, perPage \in 1..3 :
        last' = [op |-> "paginateArray", code |-> 0, err |-> ""]
                    @@ paginateArray(collection, page, perPage)
    /\ UNCHANGED <<users, projects, investments, edits, req, procs, collection, client>>

NextList == SendQuery \/ FetchProjects \/ GetProjects \/ Receive \/ Deliver \/ PaginateArray

SpecList == InitList /\ [][NextList]_vars

(***************************************************************************)
(* Properties of the list route.  While last holds the response, req still *)
(* holds the request it answers.                                           *)
(***************************************************************************)
\* the number a page or limit parameter asks for
Asked(raw, default) ==
    CASE raw = <<"1">> -> 1
      [] raw = <<"2">> -> 2
      [] raw = <<"3">> -> 3
      [] raw = <<"1", "0">> -> 10
      [] OTHER -> default

\* the comparison a filter on fundingGoal asks for; every filter of the
\* requests compares with 200
Compared(doc) ==
    LET op == req.query.fundingGoal.op IN
    CASE req.query.fundingGoal = NoFilter -> TRUE
      [] op \in {"", "in"} -> doc.fundingGoal = 200
      [] op = "gt"  -> doc.fundingGoal > 200
      [] op = "gte" -> doc.fundingGoal >= 200
      [] op = "lt"  -> doc.fundingGoal < 200
      [] op = "lte" -> doc.fundingGoal <= 200

\* the matching documents, as indices of the collection
Matching == {i \in DOMAIN collection : Compared(collection[i])}

\* the position of a matching document in the order the request asks for
Position(doc) ==
    1 + Cardinality({j \in Matching :
            IF req.query.sort = <<>>
            THEN collection[j].createdAt > doc.createdAt
            ELSE collection[j].createdAt < doc.createdAt})

\* C17: with N matching records, page p and limit L, the response has a next
\* link exactly when p * L < N and a prev link exactly when p > 1; next names
\* page p + 1 and prev page p - 1, both with the same limit.
C17_PaginationLinks ==
    last.op = "getProjects"
        => LET p == Asked(req.query.page, 1)
               L == Asked(req.query.limit, 10)
               N == Cardinality(Matching)
               links == last.pagination
           IN /\ "next" \in DOMAIN links <=> p * L < N
              /\ "prev" \in DOMAIN links <=> p > 1
              /\ "next" \in DOMAIN links => links["next"] = [page |-> p + 1, limit |-> L]
              /\ "prev" \in DOMAIN links => links["prev"] = [page |-> p - 1, limit |-> L]

\* a page in the middle has both links
C17_Witness ==
    /\ last.op = "getProjects"
    /\ DOMAIN last.pagination = {"next", "prev"}
    /\ last.pagination["next"].page = 3
    /\ last.pagination["prev"].page = 1

\* k pages hold n records of which l fit a page
IsPageCount(k, n, l) == k >= 0 /\ k * l >= n /\ (k - 1) * l < n

\* C18: the page count for N records and limit L is ceil(N / L), in
\* paginateArray and in the totalPages the ProjectContext stores after
\* fetchProjects.
C18_PageCount ==
    /\ last.op = "paginateArray"
            => IsPageCount(last.totalPages, Len(collection), last.perPage)
    /\ (~client.loading /\ client.pagination # InitialClient.pagination)
            => IsPageCount(client.pagination.totalPages, Len(collection),
                           client.pagination.limit)

\* C19: the response for page p (1 when the parameter is absent or cannot be
\* parsed) and limit L (10 by default) holds exactly the records at positions
\* (p - 1) * L + 1 .. min(p * L, N) of the sorted order, in that order, and
\* count is the number of records in data.
C19_PageContents ==
    last.op = "getProjects"
        => LET p == Asked(req.query.page, 1)
               L == Asked(req.query.limit, 10)
               N == Cardinality(Matching)
               first == (p - 1) * L + 1
               final == IF p * L < N THEN p * L ELSE N
           IN /\ last.count = Len(last.data)
              /\ Len(last.data) = (IF final >= first THEN final - first + 1 ELSE 0)
              /\ \A i \in DOMAIN last.data :
                    /\ \E j \in Matching : collection[j] = last.data[i]
                    /\ Position(last.data[i]) = first + i - 1

\* the second page of two holds the third and fourth records
C19_Witness ==
    /\ last.op = "getProjects"
    /\ req.query.page = <<"2">>
    /\ req.query.limit = <<"2">>
    /\ req.query.sort = <<>>
    /\ Len(last.data) = 2
    /\ Position(last.data[1]) = 3
    /\ Position(last.data[2]) = 4

\* C20: a filter field[gt], field[gte], field[lt], field[lte] or field[in] is
\* applied as that comparison, and select, sort, page and limit are never
\* taken for field filters: a request without page and limit is answered with
\* exactly the matching documents.
C20_ComparisonFilters ==
    (req.route = "GET /api/projects" /\ ~Idle)
        => /\ last.op = "getProjects"
           /\ (req.query.page = <<>> /\ req.query.limit = <<>>)
                => {last.data[i] : i \in DOMAIN last.data}
                        = {collection[j] : j \in Matching}

(***************************************************************************)
(* src/context/ProjectContext.js: the operations that change a project.    *)
(* An operation runs up to its await (loading is set, the error cleared,   *)
(* the request sent) and continues when projectService returns; between    *)
(* the two another operation may start.  A project of the client is the    *)
(* document the server sent: its id, its content (rev), metrics.favorites  *)
(* and its updates.                                                        *)
(***************************************************************************)
ClientProject(id, rev) == [id |-> id, rev |-> rev, metrics |-> [favorites |-> 1], updates |-> 0]

ContextOperations ==
    {"createProject", "updateProject", "deleteProject", "uploadProjectImages",
     "addProjectUpdate", "addToFavorites", "removeFromFavorites"}

\* what projectService returns for an operation on project id: success with
\* what the server sent, success false with the server's message, or nothing
\* because the call throws
ServiceResults(op, id) ==
    {[outcome |-> "success", message |-> "",
      project |-> ClientProject(IF op = "createProject" THEN "p2" ELSE id, 2),
      updates |-> 1],
     [outcome |-> "failure", message |-> "Server Error", project |-> null, updates |-> 0],
     [outcome |-> "threw", message |-> "", project |-> null, updates |-> 0]}

\* the message of the catch block
Fallback(op) ==
    CASE op = "createProject"       -> "Failed to create project"
      [] op = "updateProject"       -> "Failed to update project"
      [] op = "deleteProject"       -> "Failed to delete project"
      [] op = "uploadProjectImages" -> "Failed to upload images"
      [] op = "addProjectUpdate"    -> "Failed to add update"
      [] op = "addToFavorites"      -> "Failed to add to favorites"
      [] op = "removeFromFavorites" -> "Failed to remove from favorites"

\* the state is changed before the server has answered
afterAwait_optimistic(c, response, applied, fallback) ==
    [applied EXCEPT !.error = IF response.outcome = "success" THEN @ ELSE fallback,
                    !.loading = FALSE]

\* what follows the await in every operation: the state change `applied`
\* when response.success, setError(response.message) otherwise, the catch
\* block when the call threw; setLoading(false) in each case
afterAwait(c, response, applied, fallback) ==
    CASE response.outcome = "success" -> [applied EXCEPT !.loading = FALSE]
      [] response.outcome = "failure" -> [c EXCEPT !.error = response.message, !.loading = FALSE]
      [] response.outcome = "threw"   -> [c EXCEPT !.error = fallback, !.loading = FALSE]

\* prevProjects.map(project => project._id === id ? changed(project) : project)
mapProject(list, id, changed) ==
    [i \in DOMAIN list |-> IF list[i].id = id THEN changed[i] ELSE list[i]]

\* currentProject && currentProject._id === id, for the currentProject of
\* the closure
isCurrent(cur, id) == cur # null /\ cur.id = id

\* the number of metrics.favorites changed by d
counted(project, d) == [project EXCEPT !.metrics.favorites = @ + d]

\* the state change each operation makes on success; cur is the
\* currentProject its closure holds
applied(op, c, cur, id, response) ==
    CASE op = "createProject" ->
            [c EXCEPT !.projects = <<response.project>> \o @,
                      !.currentProject = response.project]
      [] op \in {"updateProject", "uploadProjectImages"} ->
            [c EXCEPT !.projects = mapProject(@, id, [i \in DOMAIN @ |-> response.project]),
                      !.currentProject = IF isCurrent(cur, id) THEN response.project ELSE @]
      [] op = "deleteProject" ->
            LET kept(project) == project.id # id IN
            [c EXCEPT !.projects = SelectSeq(@, kept),
                      !.currentProject = IF isCurrent(cur, id) THEN null ELSE @]
      [] op = "addProjectUpdate" ->
            [c EXCEPT !.currentProject =
                        IF isCurrent(cur, id)
                        THEN [cur EXCEPT !.updates = response.updates] ELSE @]
      [] op = "addToFavorites" ->
            [c EXCEPT !.projects = mapProject(@, id, [i \in DOMAIN @ |-> counted(@[i], 1)]),
                      !.currentProject = IF isCurrent(cur, id) THEN counted(cur, 1) ELSE @]
      [] op = "removeFromFavorites" ->
            [c EXCEPT !.projects = mapProject(@, id, [i \in DOMAIN @ |-> counted(@[i], -1)]),
                      !.currentProject = IF isCurrent(cur, id) THEN counted(cur, -1) ELSE @]

\* an operation is called: setLoading(true), setError(null), and the request
\* is on its way
Invoke(r) ==
    /\ Proc(r).pc = "idle"
    /\ \E op \in ContextOperations, id \in RequestProjectIds :
        procs' = [procs EXCEPT ![r] =
                    [NoProc EXCEPT !.op = op, !.pc = "await", !.project = id,
                                   !.captured = client.currentProject]]
    /\ client' = [client EXCEPT !.loading = TRUE, !.error = "null"]
    /\ UNCHANGED <<users, projects, investments, edits, last, req, collection>>

\* projectService returns and operation op continues after its await
Returns(r, op) ==
    /\ Proc(r).pc = "await"
    /\ Proc(r).op = op
    /\ \E response \in ServiceResults(op, Proc(r).project) :
        /\ client' = afterAwait(client, response,
                                applied(op, client, Proc(r).captured, Proc(r).project, response),
                                Fallback(op))
        /\ procs' = [procs EXCEPT ![r].pc = "done", ![r].status = response.outcome]
    /\ UNCHANGED <<users, projects, investments, edits, last, req, collection>>

\* the client after fetchProjects and, in some states, fetchProjectById
InitClient ==
    /\ users = [u \in Users |-> SeedUser(u, FALSE)]
    /\ projects = [p \in ProjectIds |-> SeedProject(FALSE)]
    /\ investments = <<>>
    /\ edits = 0
    /\ last = NoRequest
    /\ procs = [r \in Slots |-> NoProc]
    /\ req = NoHttp
    /\ collection = <<>>
    /\ \E cur \in {null, ClientProject("p1", 1)} :
          client = [InitialClient EXCEPT !.projects = <<ClientProject("p1", 1)>>,
                                         !.currentProject = cur]

NextClient ==
    \E r \in Slots :
        \/ Invoke(r)
        \/ Returns(r, "createProject")
        \/ Returns(r, "updateProject")
        \/ Returns(r, "deleteProject")
        \/ Returns(r, "uploadProjectImages")
        \/ Returns(r, "addProjectUpdate")
        \/ Returns(r, "addToFavorites")
        \/ Returns(r, "removeFromFavorites")

SpecClient == InitClient /\ [][NextClient]_vars

\* the operations that are called, and those that return, in a step
Called == {r \in Slots : Proc(r).pc = "idle" /\ procs'[r].pc = "await"}

Returned == {r \in Slots : Proc(r).pc = "await" /\ procs'[r].pc = "done"}

\* C21: projects and currentProject change only in the step in which an
\* operation of the ProjectContext returns with success; the step that sends
\* the request leaves them as they are, a failed or throwing call changes
\* only error and loading, and loading is false once an operation has
\* returned.
C21_ConfirmedBeforeApplied ==
    [][/\ (client'.projects # client.projects
            \/ client'.currentProject # client.currentProject)
                => \E r \in Returned : procs'[r].status = "success"
       /\ Called # {} => /\ client'.projects = client.projects
                         /\ client'.currentProject = client.currentProject
       /\ \A r \in Returned :
            /\ client'.loading = FALSE
            /\ procs'[r].status # "success"
                => /\ client'.error # "null"
                   /\ [client' EXCEPT !.error = client.error, !.loading = client.loading]
                        = client]_vars

\* a delete of the current project was refused by the server: the project is
\* still in the list and still the current one
C21_Witness ==
    \E r \in Slots :
        /\ Proc(r).op = "deleteProject"
        /\ Proc(r).pc = "done"
        /\ Proc(r).status = "failure"
        /\ Proc(r).project = "p1"
        /\ client.projects = <<ClientProject("p1", 1)>>
        /\ client.currentProject = ClientProject("p1", 1)
        /\ client.error = "Server Error"
        /\ ~client.loading

(***************************************************************************)
(* controllers/projectController.js: addToFavorites, removeFromFavorites   *)
(* (POST and DELETE /api/projects/:id/favorite, behind protect), as the    *)
(* steps of a request in progress: Project.findById, User.findById,        *)
(* user.save, project.save.  favoriteProjects is an array path of the User *)
(* schema and metrics.favorites a Number path of the Project schema.       *)
(***************************************************************************)
FavoriteUsers == {"alice", "bob"}

\* array.includes(id)
includes(array, id) == \E i \in DOMAIN array : array[i] = id

\* the duplicate is not looked for
alreadyFavorite_unchecked(favoriteProjects, pid) == FALSE

\* user.favoriteProjects && user.favoriteProjects.includes(project._id)
alreadyFavorite(favoriteProjects, pid) == includes(favoriteProjects, pid)

\* user.favoriteProjects.filter(id => id.toString() !== project._id.toString())
without(array, pid) ==
    LET other(id) == id # pid IN SelectSeq(array, other)

\* await Project.findById(req.params.id)
StartFavorite(r) ==
    /\ Proc(r).pc = "idle"
    /\ \E op \in {"addToFavorites", "removeFromFavorites"}, u \in FavoriteUsers,
          pid \in RequestProjectIds :
        LET started == [NoProc EXCEPT !.op = op, !.user = u, !.project = pid] IN
        procs' = [procs EXCEPT ![r] =
            IF pid \notin DOMAIN projects
            THEN [started EXCEPT !.pc = "done", !.code = 404]
            ELSE [started EXCEPT !.pc = "findUser",
                                 !.favorites = projects[pid].metrics.favorites]]
    /\ UNCHANGED <<users, projects, investments, edits, last, req, collection, client>>

\* await User.findById(req.user.id), the includes test, and the change made to the
\* document in memory
FindUser(r) ==
    /\ Proc(r).pc = "findUser"
    /\ LET user == users[Proc(r).user]
           pid == Proc(r).project
           read == [Proc(r) EXCEPT !.favoriteProjects = user.favoriteProjects,
                                   !.version = user.version]
       IN procs' = [procs EXCEPT ![r] =
            IF Proc(r).op = "addToFavorites"
            THEN IF alreadyFavorite(user.favoriteProjects, pid)
                 THEN [read EXCEPT !.pc = "done", !.code = 400]
                 ELSE [read EXCEPT !.pc = "saveUser"]
            ELSE IF ~includes(user.favoriteProjects, pid)
                 THEN [read EXCEPT !.pc = "done", !.code = 400]
                 ELSE [read EXCEPT !.pc = "saveUser",
                                   !.favoriteProjects = without(user.favoriteProjects, pid)]]
    /\ UNCHANGED <<users, projects, investments, edits, last, req, collection, client>>

\* await user.save().  The push is sent as $push, applied to the array the
\* database holds, and increments __v; the assignment of the filtered array
\* is sent as $set with the __v that was read in the filter of the update,
\* and fails with a VersionError (500) when the document has another
SaveUser(r) ==
    /\ Proc(r).pc = "saveUser"
    /\ LET u == Proc(r).user IN
       IF Proc(r).op = "addToFavorites"
       THEN /\ users' = [users EXCEPT ![u].favoriteProjects = Append(@, Proc(r).project),
                                      ![u].version = @ + 1]
            /\ procs' = [procs EXCEPT ![r].pc = "saveProject"]
       ELSE IF users[u].version # Proc(r).version
       THEN /\ procs' = Done(r, 500)
            /\ UNCHANGED users
       ELSE /\ users' = [users EXCEPT ![u].favoriteProjects = Proc(r).favoriteProjects,
                                      ![u].version = @ + 1]
            /\ procs' = [procs EXCEPT ![r].pc = "saveProject"]
    /\ UNCHANGED <<projects, investments, edits, last, req, collection, client>>

\* project.metrics.favorites += 1 (or -= 1) on the document read at the
\* start; await project.save(); the 200 response.  A project deleted in
\* between is not written
SaveProject(r) ==
    /\ Proc(r).pc = "saveProject"
    /\ LET pid == Proc(r).project
           counter == Proc(r).favorites
                        + (IF Proc(r).op = "addToFavorites" THEN 1 ELSE -1)
       IN projects' = IF pid \in DOMAIN projects
                      THEN [projects EXCEPT ![pid].metrics.favorites = counter]
                      ELSE projects
    /\ procs' = Done(r, 200)
    /\ UNCHANGED <<users, investments, edits, last, req, collection, client>>

\* no favorites and a counter of 0
InitFavorites ==
    /\ Quiet
    /\ users = [u \in Users |-> SeedUser(u, FALSE)]
    /\ projects = [p \in ProjectIds |-> SeedProject(FALSE)]
    /\ investments = <<>>
    /\ edits = 0
    /\ last = NoRequest

NextFavorites ==
    \E r \in Slots : StartFavorite(r) \/ FindUser(r) \/ SaveUser(r) \/ SaveProject(r)

SpecFavorites == InitFavorites /\ [][NextFavorites]_vars

\* C22: a request to add a project the user already has in favorites is
\* answered 400, and so is a request to remove a project that is not in the
\* user's favorites; the user's favoriteProjects and the project's
\* metrics.favorites are left as they were.
C22_FavoriteRejected ==
    [][\A r \in Slots :
        (Proc(r).pc = "findUser" /\ procs'[r].pc # "findUser")
            => LET has == \E i \in DOMAIN users[Proc(r).user].favoriteProjects :
                             users[Proc(r).user].favoriteProjects[i] = Proc(r).project
                   rejected == /\ procs'[r].pc = "done"
                               /\ procs'[r].code = 400
                               /\ users' = users
                               /\ projects' = projects
               IN /\ (Proc(r).op = "addToFavorites" /\ has) => rejected
                  /\ (Proc(r).op = "removeFromFavorites" /\ ~has) => rejected]_vars

\* alice added p1 to her favorites, and her second request to add it was
\* answered 400
C22_Witness ==
    \E r, q \in Slots :
        /\ Proc(r).op = "addToFavorites" /\ Proc(q).op = "addToFavorites"
        /\ Proc(r).user = "alice" /\ Proc(q).user = "alice"
        /\ Proc(r).project = "p1" /\ Proc(q).project = "p1"
        /\ Proc(r).code = 200
        /\ Proc(q).code = 400
        /\ users["alice"].favoriteProjects = <<"p1">>
        /\ projects["p1"].metrics.favorites = 1

\* the users who have project pid in their favorites
Fans(pid) == {u \in DOMAIN users : includes(users[u].favoriteProjects, pid)}

\* C29: once the addToFavorites and removeFromFavorites requests that were
\* made have finished, whatever their order and interleaving, the
\* metrics.favorites of a project is the number of users whose
\* favoriteProjects contains it and no favoriteProjects contains a project
\* twice; the counter is never negative.
C29_FavoritesCounter ==
    \A pid \in DOMAIN projects :
        /\ projects[pid].metrics.favorites >= 0
        /\ AllDone
            => /\ projects[pid].metrics.favorites = Cardinality(Fans(pid))
               /\ \A u \in DOMAIN users :
                    \A i, j \in DOMAIN users[u].favoriteProjects :
                        users[u].favoriteProjects[i] = users[u].favoriteProjects[j] => i = j

(***************************************************************************)
(* The routers of routes/userRoutes.js, routes/projectRoutes.js and        *)
(* routes/investmentRoutes.js as Express walks them: the layers of a       *)
(* router in the order they were added, a request given to each layer      *)
(* whose method and path match until a middleware ends it.  A path is the  *)
(* sequence of its segments below the mount point of the router.           *)
(***************************************************************************)
PathParams == {":id", ":projectId"}

\* one function of a layer's stack; roles are those of authorize(...roles)
Fn(fn, roles) == [fn |-> fn, roles |-> roles]

\* router.use(fn), router.use(path, router), router.METHOD(path, ...stack)
use(fn) == [kind |-> "use", method |-> "", path |-> <<>>, stack |-> <<fn>>, router |-> ""]

mount(path, router) ==
    [kind |-> "mount", method |-> "", path |-> path, stack |-> <<>>, router |-> router]

route(method, path, stack) ==
    [kind |-> "route", method |-> method, path |-> path, stack |-> stack, router |-> ""]

Routers(name) ==
    CASE name = "userRoutes" ->
            <<use(Fn("protect", {})),
              use(Fn("authorize", {"admin"})),
              route("GET", <<>>, <<Fn("advancedResults", {}), Fn("getUsers", {})>>),
              route("POST", <<>>, <<Fn("createUser", {})>>),
              route("GET", <<":id">>, <<Fn("getUser", {})>>),
              route("PUT", <<":id">>, <<Fn("updateUser", {})>>),
              route("DELETE", <<":id">>, <<Fn("deleteUser", {})>>),
              route("GET", <<":id", "investments">>,
                    <<Fn("authorize", {"admin"}), Fn("getUserInvestments", {})>>),
              route("GET", <<"dashboard">>, <<Fn("getUserDashboard", {})>>),
              route("PUT", <<"avatar">>, <<Fn("upload", {}), Fn("updateAvatar", {})>>)>>
      [] name = "projectRoutes" ->
            <<mount(<<":projectId", "investments">>, "investmentRoutes"),
              route("GET", <<>>, <<Fn("advancedResults", {}), Fn("getProjects", {})>>),
              route("GET", <<":id">>, <<Fn("getProject", {})>>),
              use(Fn("protect", {})),
              route("POST", <<>>, <<Fn("authorize", {"admin", "manager"}), Fn("createProject", {})>>),
              route("PUT", <<":id">>, <<Fn("authorize", {"admin", "manager"}), Fn("updateProject", {})>>),
              route("DELETE", <<":id">>, <<Fn("authorize", {"admin", "manager"}), Fn("deleteProject", {})>>),
              route("PUT", <<":id", "images">>,
                    <<Fn("authorize", {"admin", "manager"}), Fn("upload", {}),
                      Fn("projectImageUpload", {})>>),
              route("POST", <<":id", "updates">>,
                    <<Fn("authorize", {"admin", "manager"}), Fn("addProjectUpdate", {})>>),
              route("POST", <<":id", "favorite">>, <<Fn("addToFavorites", {})>>),
              route("DELETE", <<":id", "favorite">>, <<Fn("removeFromFavorites", {})>>),
              route("POST", <<":projectId", "investments">>, <<Fn("createInvestment", {})>>),
              route("GET", <<":projectId", "investments">>,
                    <<Fn("authorize", {"admin", "manager"}), Fn("getProjectInvestments", {})>>)>>
      [] name = "investmentRoutes" ->
            <<use(Fn("protect", {})),
              route("GET", <<"me">>, <<Fn("getMyInvestments", {})>>),
              route("GET", <<":id">>, <<Fn("getInvestment", {})>>),
              route("PUT", <<":id", "cancel">>, <<Fn("cancelInvestment", {})>>),
              route("POST", <<>>, <<Fn("createInvestment", {})>>),
              use(Fn("authorize", {"admin"})),
              route("GET", <<>>, <<Fn("advancedResults", {}), Fn("getInvestments", {})>>),
              route("PUT", <<":id">>, <<Fn("updateInvestment", {})>>)>>

\* the path starts with the pattern, a parameter of the pattern taking any
\* segment
matchPrefix(pattern, path) ==
    /\ Len(pattern) <= Len(path)
    /\ \A i \in DOMAIN pattern : pattern[i] \in PathParams \/ pattern[i] = path[i]

matchPath(pattern, path) == Len(pattern) = Len(path) /\ matchPrefix(pattern, path)

\* the request as the layers see it: whether it has been answered, by which
\* function and with which error, and req.user
Unanswered == [ended |-> FALSE, by |-> "", code |-> 0, err |-> "", user |-> ""]

ended(ctx, by, code, err) == [ctx EXCEPT !.ended = TRUE, !.by = by, !.code = code, !.err = err]

\* the functions of a stack, each called by the next() of the one before:
\* protect and authorize end the request with an error or call next(),
\* advancedResults and upload call next(), a controller ends the request
RECURSIVE runStack(_, _, _, _)
runStack(stack, ctx, token, now) ==
    IF ctx.ended \/ stack = <<>> THEN ctx
    ELSE LET f == Head(stack) IN
         CASE f.fn = "protect" ->
                LET auth == protect(token, now) IN
                IF auth.code # 0
                THEN ended(ctx, "protect", auth.code, auth.err)
                ELSE runStack(Tail(stack), [ctx EXCEPT !.user = auth.user], token, now)
           [] f.fn = "authorize" ->
                IF ~authorize(f.roles, ctx.user)
                THEN ended(ctx, "authorize", 403, "role is not authorized to access this route")
                ELSE runStack(Tail(stack), ctx, token, now)
           [] f.fn \in {"advancedResults", "upload"} ->
                runStack(Tail(stack), ctx, token, now)
           [] OTHER -> ended(ctx, f.fn, 0, "")

\* router.handle: the layers in order; a mounted router is given the rest of
\* the path and, when none of its layers ends the request, the layers after
\* the mount go on
RECURSIVE handle(_, _, _, _, _, _)
handle(layers, method, path, ctx, token, now) ==
    IF ctx.ended \/ layers = <<>> THEN ctx
    ELSE LET layer == Head(layers)
             after ==
                CASE layer.kind = "use" -> runStack(layer.stack, ctx, token, now)
                  [] layer.kind = "mount" ->
                        IF matchPrefix(layer.path, path)
                        THEN handle(Routers(layer.router), method,
                                    SubSeq(path, Len(layer.path) + 1, Len(path)),
                                    ctx, token, now)
                        ELSE ctx
                  [] layer.kind = "route" ->
                        IF layer.method = method /\ matchPath(layer.path, path)
                        THEN runStack(layer.stack, ctx, token, now)
                        ELSE ctx
         IN handle(Tail(layers), method, path, after, token, now)

\* the router mounted in server.js, then the 404 handler of the app
dispatch(router, method, path, token, now) ==
    LET ctx == handle(Routers(router), method, path, Unanswered, token, now) IN
    IF ctx.ended THEN ctx ELSE ended(ctx, "notFound", 404, "Not Found")

(***************************************************************************)
(* controllers/investmentController.js: getProjectInvestments and          *)
(* getInvestments                                                          *)
(***************************************************************************)
\* Investment.find({ project: pid })
investmentsOf(pid) ==
    LET ofProject(investment) == investment.project = pid IN SelectSeq(investments, ofProject)

Listing(op, code, err, u, pid, data) ==
    [data |-> data] @@ Response(op, code, err, <<>>, u, pid, 0, "", "", 0, "")

getProjectInvestments(u, pid) ==
    LET no == refused(u, pid) IN
    IF no.code # 0
    THEN Listing("getProjectInvestments", no.code, no.err, u, pid, <<>>)
    ELSE Listing("getProjectInvestments", 200, "", u, pid, investmentsOf(pid))

\* res.status(200).json(res.advancedResults), of advancedResults(Investment)
getInvestments(u, pid) ==
    Listing("getInvestments", 200, "", u, pid, advancedResults(investments, NoQuery).data)

\* the response of a request the chain has been walked for: the error of the
\* middleware that ended it, or what the controller it reached answers (the
\* controllers of the user routes are only named)
respond(ctx, pid) ==
    CASE ctx.by = "getProjectInvestments" -> getProjectInvestments(ctx.user, pid)
      [] ctx.by = "getInvestments" -> getInvestments(ctx.user, pid)
      [] OTHER -> Listing(ctx.by, ctx.code, ctx.err, ctx.user, pid, <<>>)

\* a request is walked through the router and answered
Request(name, router, method, path, pid) ==
    /\ Idle
    /\ \E token \in Tokens, now \in Times :
        /\ req' = [NoHttp EXCEPT !.route = name, !.token = token, !.now = now]
        /\ last' = respond(dispatch(router, method, path, token, now), pid)
    /\ UNCHANGED <<users, projects, investments, edits, procs, collection, client>>

GetProjectInvestments ==
    \E pid \in {"p0", "p1", "p2"} :
        Request("GET /api/projects/:projectId/investments", "projectRoutes", "GET",
                <<pid, "investments">>, pid)

GetUserDashboard ==
    Request("GET /api/users/dashboard", "userRoutes", "GET", <<"dashboard">>, "")

PutUserAvatar ==
    Request("PUT /api/users/avatar", "userRoutes", "PUT", <<"avatar">>, "")

\* two projects, of the manager and of the manager or the admin, with an
\* investment each
InitRouters ==
    /\ Quiet
    /\ \E accredited \in BOOLEAN : users = [u \in Users |-> SeedUser(u, accredited)]
    /\ \E owner \in {"mgr", "root"} :
          projects = [p \in {"p1", "p2"} |->
                        [SeedProject(FALSE) EXCEPT !.owner = IF p = "p1" THEN "mgr" ELSE owner]]
    /\ investments = <<PendingInvestment("bank_"),
                       [PendingInvestment("pi_") EXCEPT !.project = "p2", !.investor = "bob"]>>
    /\ edits = 0
    /\ last = NoRequest

NextRouters == GetProjectInvestments \/ GetUserDashboard \/ PutUserAvatar \/ Reset

SpecRouters == InitRouters /\ [][NextRouters]_vars

\* C23: GET /api/projects/:projectId/investments by an admin, or by a manager
\* who owns the project, is answered by getProjectInvestments with the
\* investments of that project and no others.
C23_ProjectInvestmentsReached ==
    [][(/\ last'.op # "none"
        /\ req'.route = "GET /api/projects/:projectId/investments"
        /\ Credible
        /\ req'.token.sub \in DOMAIN users
        /\ last'.id \in DOMAIN projects
        /\ \/ users[req'.token.sub].role = "admin"
           \/ /\ users[req'.token.sub].role = "manager"
              /\ projects[last'.id].owner = req'.token.sub)
        => /\ last'.op = "getProjectInvestments"
           /\ last'.code = 200
           /\ \A i \in DOMAIN last'.data : last'.data[i].project = last'.id
           /\ Len(last'.data)
                = Cardinality({i \in DOMAIN investments : investments[i].project = last'.id})]_vars

\* C24: GET /api/users/dashboard and PUT /api/users/avatar by an
\* authenticated user of any role reach getUserDashboard and updateAvatar.
C24_RegularUserRoutes ==
    [][(last'.op # "none" /\ Credible /\ req'.token.sub \in DOMAIN users)
        => /\ req'.route = "GET /api/users/dashboard" => last'.op = "getUserDashboard"
           /\ req'.route = "PUT /api/users/avatar" => last'.op = "updateAvatar"]_vars

(***************************************************************************)
(* Invariants of the ledger under createInvestment and cancelInvestment.   *)
(***************************************************************************)
\* C25: starting from a project with fundingRaised 0 and no investments,
\* fundingRaised is never negative in a state reached by createInvestment
\* and cancelInvestment requests.
C25_RaisedNeverNegative ==
    \A pid \in DOMAIN projects : projects[pid].fundingRaised >= 0

\* C26: in every state reached by createInvestment and cancelInvestment
\* requests a funded project has fundingRaised at or above fundingGoal and an
\* active project has fundingRaised below fundingGoal.
C26_StatusMatchesRaised ==
    \A pid \in DOMAIN projects :
        /\ projects[pid].status = "funded"
                => projects[pid].fundingRaised >= projects[pid].fundingGoal
        /\ projects[pid].status = "active"
                => projects[pid].fundingRaised < projects[pid].fundingGoal

(***************************************************************************)
(* Properties of createInvestment's persistence steps and of the body it   *)
(* persists.                                                               *)
(***************************************************************************)
\* the gateway took the payment of the request in slot r
Charged(r) ==
    /\ Proc(r).op = "createInvestment"
    /\ Proc(r).gateway = "succeeded"
    /\ Proc(r).paymentId # ""

\* C27: once the createInvestment requests have been answered, every payment
\* the gateway took has a persisted Investment with its payment identifier,
\* and every persisted completed Investment is counted in fundingRaised, also
\* when Investment.create, the aggregation or project.save failed.
C27_NoChargeWithoutRecord ==
    AllDone
        => /\ \A r \in Slots :
                Charged(r) => /\ Proc(r).id \in DOMAIN investments
                              /\ investments[Proc(r).id].paymentId = Proc(r).paymentId
           /\ \A pid \in ProjectIds : projects[pid].fundingRaised >= LedgerSum(pid)

\* C28: the Investment a createInvestment request creates has the
\* authenticated requester as investor and the project of the route as
\* project, whatever investor and project the request body names.
C28_InvestorAndProjectFromRequest ==
    \A r \in Slots :
        (Proc(r).op = "createInvestment" /\ Proc(r).id \in DOMAIN investments)
            => /\ investments[Proc(r).id].investor = Proc(r).user
               /\ investments[Proc(r).id].project = Proc(r).project

\* alice's request named bob as investor and another project in its body; the
\* investment is hers, on the project of the route
C28_Witness ==
    \E r \in Slots :
        /\ Proc(r).op = "createInvestment"
        /\ Proc(r).sent = [investor |-> "bob", project |-> "p0"]
        /\ Proc(r).user = "alice"
        /\ Proc(r).id \in DOMAIN investments
        /\ investments[Proc(r).id].investor = "alice"
        /\ investments[Proc(r).id].project = "p1"

(***************************************************************************)
(* src/services/api.js: the axios instance with its request and response   *)
(* interceptors, and utils/token.js.  A request of the client is sent,     *)
(* answered by the server, and, after a 401, refreshed and sent again; the *)
(* requests in different slots are in flight at the same time.             *)
(***************************************************************************)
\* what the server answers a request with; 0 is no response at all (the
\* network failed, the 15 s timeout passed)
Statuses == {0, 200, 401, 500}

\* one more send or refresh
counted1(n) == IF n < MaxAttempts THEN n + 1 ELSE n

\* setToken / setRefreshToken: a falsy value is not stored
stored(old, new) == IF new # "" THEN new ELSE old

\* clearTokens()
clearTokens(storage) == NoTokens

\* the request interceptor: the stored token, when there is one, replaces the
\* Authorization header
requestInterceptor(authorization, storage) ==
    IF storage.token # "" THEN storage.token ELSE authorization

\* _retry is never looked at
retrying_forgotten(request) == FALSE

\* originalRequest._retry
retrying(request) == request.retry

\* api.get / api.post / ...: the request leaves with the stored token
Send(r) ==
    /\ Proc(r).pc = "idle"
    /\ procs' = [procs EXCEPT ![r] =
            [NoProc EXCEPT !.op = "api", !.pc = "sent", !.sends = 1,
                           !.authorization = requestInterceptor("", client.storage)]]
    /\ UNCHANGED <<users, projects, investments, edits, last, req, collection, client>>

\* the server answers and the response interceptor runs up to its await: a
\* response is passed on; a 401 of a request that is not a retry marks it and,
\* with a stored refresh token, posts it to /auth/refresh-token; every other
\* error is rejected
Responds(r) ==
    /\ Proc(r).pc = "sent"
    /\ \E status \in Statuses :
        procs' = [procs EXCEPT ![r] =
            IF status = 200
            THEN [@ EXCEPT !.pc = "settled", !.code = 200]
            ELSE IF status = 401 /\ ~retrying(@)
            THEN IF client.storage.refreshToken # ""
                 THEN [@ EXCEPT !.retry = TRUE, !.pc = "refreshing",
                                !.refreshes = counted1(@)]
                 ELSE [@ EXCEPT !.retry = TRUE, !.pc = "settled", !.code = 401]
            ELSE [@ EXCEPT !.pc = "settled", !.code = status]]
    /\ UNCHANGED <<users, projects, investments, edits, last, req, collection, client>>

\* the refresh is answered: with the new tokens, which are stored, and the
\* original request is sent again through api; or with an error, and the
\* tokens are cleared and the request rejected.  A response may lack either
\* token
RefreshResponds(r) ==
    /\ Proc(r).pc = "refreshing"
    /\ \/ \E token \in {"", "token2"}, refreshToken \in {"", "refresh2"} :
            LET storage == [client.storage EXCEPT
                                !.token = stored(@, token),
                                !.refreshToken = stored(@, refreshToken)]
            IN /\ client' = [client EXCEPT !.storage = storage]
               /\ procs' = [procs EXCEPT ![r] =
                    [@ EXCEPT !.pc = "sent", !.sends = counted1(@),
                              !.authorization = requestInterceptor(token, storage)]]
       \/ /\ client' = [client EXCEPT !.storage = clearTokens(@)]
          /\ procs' = [procs EXCEPT ![r] = [@ EXCEPT !.pc = "settled", !.code = 401]]
    /\ UNCHANGED <<users, projects, investments, edits, last, req, collection>>

\* the client after a login, with or without a refresh token, or logged out
InitApi ==
    /\ users = [u \in Users |-> SeedUser(u, FALSE)]
    /\ projects = [p \in ProjectIds |-> SeedProject(FALSE)]
    /\ investments = <<>>
    /\ edits = 0
    /\ last = NoRequest
    /\ procs = [r \in Slots |-> NoProc]
    /\ req = NoHttp
    /\ collection = <<>>
    /\ \E token \in {"", "token1"}, refreshToken \in {"", "refresh1"} :
          client = [InitialClient EXCEPT
                        !.storage = [token |-> token, refreshToken |-> refreshToken,
                                     user |-> IF token = "" THEN "" ELSE "alice"]]

NextApi == \E r \in Slots : Send(r) \/ Responds(r) \/ RefreshResponds(r)

\* every request that is on its way is answered
Answered == \A r \in Slots : WF_vars(Responds(r)) /\ WF_vars(RefreshResponds(r))

SpecApi == InitApi /\ [][NextApi]_vars /\ Answered

====
